---- MODULE Spec2Model ----
(***************************************************************************)
(* Model of the whisky recommendation engine (WhiskyRecommender and its    *)
(* collaborators BaxusAPI, CollectionAnalyzer and FeatureProcessor).       *)
(*                                                                         *)
(* Encodings.  A Python float is an exact rational [n, d] in lowest terms  *)
(* (d > 0).  A DataFrame is [columns |-> sequence of column names,         *)
(* rows |-> sequence of records].  A dict that keeps insertion order is a  *)
(* sequence of [k, v] pairs with distinct keys.  A missing cell of an      *)
(* object column is NaNStr (key absent from the record) or NoneStr (column *)
(* added with value None); a missing cell of the flavor_profile column is  *)
(* NaNProfile.  A cosine score is [factor, cos2]: the real number          *)
(* factor * sqrt(cos2).                                                    *)
(***************************************************************************)
EXTENDS Integers, Sequences, FiniteSets, TLC

VARIABLES
    file_state,     \* the catalog JSON file: "ok", "missing" or "malformed"
    catalog_file,   \* the records of the catalog JSON file
    bottles_df,     \* WhiskyRecommender.bottles_df
    flavor_features, \* flavor_features of the engine's FeatureProcessor
    pc,             \* "new" (no engine), "failed" (the constructor raised),
                    \* "ready", or where the last call ended: "done" (a
                    \* recommendation call), "analysed", "processed", "loaded",
                    \* "filtered", "saved"
    call,           \* the operation called last and its arguments
    path,           \* the branch get_recommendations took
    ran,            \* the collaborators the call invoked
    profile,        \* user_preferences of the call
    ranking,        \* per candidate row: bottle_id, catalog price, score
    result          \* what the call returned or raised

vars ==
    <<file_state, catalog_file, bottles_df, flavor_features, pc, call, path, ran,
      profile, ranking, result>>

(***************************************************************************)
(* Bounds of the model.                                                    *)
(***************************************************************************)
MaxCatalog == 3
MaxOwned == 2
MaxWishlist == 1
MaxCount == 3
MaxBatch == 2
MaxFilters == 2

(***************************************************************************)
(* Exact rational arithmetic (Python floats without rounding).             *)
(***************************************************************************)
\* The arithmetic is written as functions of the integers, which are
\* evaluated in their own scope wherever they are applied.
Gcd[a \in Nat, b \in Nat] == IF b = 0 THEN a ELSE Gcd[b, a % b]

Abs(x) == IF x < 0 THEN -x ELSE x

Fraction[n \in Int, d \in Int] ==
    LET g == Gcd[Abs(n), Abs(d)]
        s == IF d < 0 THEN -1 ELSE 1
    IN  [n |-> s * (n \div g), d |-> s * (d \div g)]

\* The rational n/d in lowest terms with a positive denominator.
Rat(n, d) == Fraction[n, d]

Zero == [n |-> 0, d |-> 1]
One == [n |-> 1, d |-> 1]
Int2Rat(i) == [n |-> i, d |-> 1]

RatSum[xn \in Int, xd \in Int, yn \in Int, yd \in Int] ==
    LET l == (xd \div Gcd[xd, yd]) * yd
    IN  Fraction[xn * (l \div xd) + yn * (l \div yd), l]

RatAdd(x, y) == RatSum[x.n, x.d, y.n, y.d]

RatSub(x, y) == RatSum[x.n, x.d, -y.n, y.d]

RatProduct[xn \in Int, xd \in Int, yn \in Int, yd \in Int] ==
    LET g1 == Gcd[Abs(xn), yd]
        g2 == Gcd[Abs(yn), xd]
    IN  Fraction[(xn \div g1) * (yn \div g2), (xd \div g2) * (yd \div g1)]

RatMul(x, y) == RatProduct[x.n, x.d, y.n, y.d]

RatDivInt(x, k) == RatProduct[x.n, x.d, 1, k]

\* Comparison of a/b with c/d for a, c >= 0 and b, d > 0 by their continued
\* fractions: -1, 0 or 1.  No product is formed, so nothing overflows.
CmpFrac[a \in Int, b \in Int, c \in Int, d \in Int] ==
    LET q1 == a \div b
        q2 == c \div d
        r1 == a % b
        r2 == c % d
    IN  IF q1 # q2 THEN (IF q1 < q2 THEN -1 ELSE 1)
        ELSE IF r1 = 0 /\ r2 = 0 THEN 0
        ELSE IF r1 = 0 THEN -1
        ELSE IF r2 = 0 THEN 1
        ELSE CmpFrac[d, r2, b, r1]

Compare[xn \in Int, xd \in Int, yn \in Int, yd \in Int] ==
    IF xn < 0 /\ yn >= 0 THEN -1
    ELSE IF xn >= 0 /\ yn < 0 THEN 1
    ELSE IF xn < 0 THEN CmpFrac[-yn, yd, -xn, xd]
    ELSE CmpFrac[xn, xd, yn, yd]

RatCmp(x, y) == Compare[x.n, x.d, y.n, y.d]

RatLess(x, y) == RatCmp(x, y) = -1
RatLeq(x, y) == RatCmp(x, y) # 1

(***************************************************************************)
(* Sequence helpers.                                                       *)
(***************************************************************************)
Range(s) == {s[i] : i \in DOMAIN s}

\* f itself, as an explicit table of its values: a function written as a
\* rule is otherwise evaluated anew at every application.
Table(f) == f @@ <<>>

\* The elements of s at the positions in I, in the order of s.
Pick(s, I) ==
    LET idx == SelectSeq([i \in DOMAIN s |-> i], LAMBDA i : i \in I)
    IN  Table([j \in DOMAIN idx |-> s[idx[j]]])

Head2(s, n) == IF Len(s) <= n THEN s ELSE SubSeq(s, 1, n)

Reverse(s) == [i \in 1..Len(s) |-> s[Len(s) + 1 - i]]

\* dict.get(key, default) on a record.
Get(b, key, default) == IF key \in DOMAIN b THEN b[key] ELSE default

\* dict.get(key, default) on an insertion-ordered dict.
DGet(m, key, default) ==
    IF \E i \in DOMAIN m : m[i].k = key
    THEN (CHOOSE e \in Range(m) : e.k = key).v
    ELSE default

DKeys(m) == {m[i].k : i \in DOMAIN m}

(***************************************************************************)
(* Missing values and their conversions.                                   *)
(***************************************************************************)
NaNStr == "<NaN>"
NoneStr == "<None>"

\* NaN in a column of dicts: a one-entry sequence under the key NaNStr, which
\* no dict of the program holds, so that it differs from every dict and from
\* the empty dict.
NaNProfile == <<[k |-> NaNStr, v |-> [n |-> 0, d |-> 0]]>>

isna(x) == x \in {NaNStr, NoneStr}

\* str(x) of an object cell.
Str(x) == IF x = NaNStr THEN "nan" ELSE IF x = NoneStr THEN "None" ELSE x

(***************************************************************************)
(* The data the model ranges over: the bottle records of the catalog file  *)
(* and of the collection provider's responses.  A key that a JSON record   *)
(* does not carry is absent from the DOMAIN of the TLA+ record.            *)
(***************************************************************************)
\* The order in which a bottle record lists its keys.
FieldOrder ==
    <<"bottle_id", "name", "brand", "region", "style", "country", "price",
      "age", "abv", "rating", "flavor_profile">>

\* Python's ordering of the strings that occur as category values and
\* flavor names (sorted()).
SortedStrings ==
    <<"", "Blend", "Bourbon", "Highland", "Islay", "Kentucky", "Scotland",
      "Single Malt", "Speyside", "USA", "Unknown", "peaty", "smoky", "sweet">>

Lagavulin ==
    [bottle_id |-> "lagavulin-16", name |-> "Lagavulin 16", brand |-> "Lagavulin",
     region |-> "Islay", style |-> "Single Malt", price |-> 200, age |-> 16,
     abv |-> 43, rating |-> 5,
     flavor_profile |-> <<[k |-> "smoky", v |-> Rat(3, 4)]>>]

Makers ==
    [bottle_id |-> "makers-mark", name |-> "Maker's Mark", brand |-> "Maker's Mark",
     region |-> "Kentucky", style |-> "Bourbon", price |-> 50,
     abv |-> 43, rating |-> 4,
     flavor_profile |-> <<[k |-> "sweet", v |-> Rat(3, 4)]>>]

Ardbeg ==
    [bottle_id |-> "ardbeg-10", name |-> "Ardbeg 10", brand |-> "Ardbeg",
     region |-> "Islay", style |-> "Single Malt", price |-> 100, age |-> 8,
     abv |-> 46,
     flavor_profile |-> <<[k |-> "smoky", v |-> Rat(3, 4)],
                          [k |-> "peaty", v |-> Rat(1, 2)]>>]

KentuckyMalt ==
    [bottle_id |-> "kentucky-malt", name |-> "Kentucky Malt", brand |-> "Makers",
     region |-> "Kentucky", style |-> "Single Malt", price |-> 100, age |-> 8,
     abv |-> 40, rating |-> 2,
     flavor_profile |-> <<[k |-> "sweet", v |-> Rat(1, 2)]>>]

Mystery ==
    [bottle_id |-> "mystery", style |-> "Blend", age |-> 16, abv |-> 40,
     rating |-> 1]

CatalogPool == <<Lagavulin, Makers, Ardbeg, KentuckyMalt, Mystery>>

\* The end-to-end fixture: an Islay Single Malt at 55 and a bourbon at 200.
IslayCandidate ==
    [bottle_id |-> "islay-55", name |-> "Islay 55", region |-> "Islay",
     style |-> "Single Malt", price |-> 55,
     flavor_profile |-> <<[k |-> "smoky", v |-> Rat(8, 10)]>>]

BourbonCandidate ==
    [bottle_id |-> "bourbon-200", name |-> "Bourbon 200", region |-> "Kentucky",
     style |-> "Bourbon", price |-> 200]

EndToEndCatalog == <<IslayCandidate, BourbonCandidate>>

\* The fallback fixture: ten bottles rated 1..10, listed by ascending rating.
RatedRegion(i) ==
    IF i = 10 THEN "Islay" ELSE IF i = 9 THEN "Kentucky"
    ELSE IF i = 8 THEN "Speyside" ELSE "Highland"

RatedStyle(i) == IF i = 9 THEN "Bourbon" ELSE IF i >= 8 THEN "Single Malt" ELSE "Blend"

RatedBottle(i) ==
    [bottle_id |-> "rated-" \o ToString(i), name |-> "Rated " \o ToString(i),
     region |-> RatedRegion(i), style |-> RatedStyle(i), rating |-> i]

TenRatedCatalog == [i \in 1..10 |-> RatedBottle(i)]

\* The subsequences of s with at most n elements.
SubSeqsUpTo(s, n) ==
    {Pick(s, I) : I \in {J \in SUBSET DOMAIN s : Cardinality(J) <= n}}

\* A catalog whose first bottle has the empty string for its region.
UnplacedCatalog ==
    <<[bottle_id |-> "unplaced", name |-> "Unplaced", brand |-> "Unplaced",
       region |-> "", style |-> "Blend", price |-> 60, age |-> 10, abv |-> 40,
       rating |-> 3,
       flavor_profile |-> <<[k |-> "sweet", v |-> Rat(1, 2)]>>],
      Lagavulin, Makers>>

CatalogFiles ==
    SubSeqsUpTo(CatalogPool, MaxCatalog)
        \cup {EndToEndCatalog, TenRatedCatalog, UnplacedCatalog}

\* JSON null in a numeric field of a provider record.
NullNum == -1

OwnedArdbeg == [r \in DOMAIN Ardbeg \cup {"country", "rating"} |->
                   IF r = "country" THEN "Scotland"
                   ELSE IF r = "rating" THEN 4 ELSE Ardbeg[r]]

OwnedMakers == [r \in DOMAIN Makers \cup {"country"} |->
                   IF r = "country" THEN "USA"
                   ELSE IF r = "price" THEN 34 ELSE Makers[r]]

HouseDram == [bottle_id |-> "house-dram", region |-> "Islay", price |-> 1]

\* A record whose price is null: float(None) raises.
Broken == [bottle_id |-> "lagavulin-16", name |-> "Lagavulin 16", price |-> NullNum]

OwnedIslay ==
    [bottle_id |-> "a", region |-> "Islay", style |-> "Single Malt", price |-> 50,
     flavor_profile |-> <<[k |-> "smoky", v |-> Rat(9, 10)]>>]

BarPool == <<OwnedArdbeg, OwnedMakers, HouseDram>>

\* A record without a region, and one whose only flavor has intensity 0.
NoRegion ==
    [bottle_id |-> "no-region", name |-> "No Region", style |-> "Blend",
     price |-> 20]

Faint ==
    [bottle_id |-> "faint", region |-> "Speyside",
     flavor_profile |-> <<[k |-> "smoky", v |-> Zero]>>]

\* The collections handed to the analyzer.
AnalyzerPool == <<OwnedArdbeg, OwnedMakers, NoRegion, Faint>>

\* A record without a bottle_id.
Anonymous == [name |-> "Anonymous", region |-> "Islay", price |-> 10]

\* The batches handed to the feature processor.
BatchPool == <<Ardbeg, KentuckyMalt, Lagavulin, Anonymous>>

\* What may be found at the catalog's path.
FileStates == {"ok", "missing", "malformed"}

WishPool == <<[bottle_id |-> "lagavulin-16", name |-> "Lagavulin 16"],
              [bottle_id |-> "makers-mark"]>>

(***************************************************************************)
(* pandas.DataFrame(list of records).                                      *)
(***************************************************************************)
RequiredColumns ==
    <<"bottle_id", "name", "brand", "region", "style", "price", "age", "abv",
      "rating", "flavor_profile">>

NumericFields == {"price", "age", "abv", "rating"}

\* s followed by the elements of t that s lacks, in t's order.
AppendNew(s, t) == s \o SelectSeq(t, LAMBDA c : c \notin Range(s))

RECURSIVE ColumnsUpTo(_, _)
ColumnsUpTo(bottles, n) ==
    IF n = 0 THEN <<>>
    ELSE AppendNew(ColumnsUpTo(bottles, n - 1),
                   SelectSeq(FieldOrder, LAMBDA c : c \in DOMAIN bottles[n]))

\* The columns of DataFrame(bottles): the keys in first-seen order.
DataFrameColumns(bottles) == ColumnsUpTo(bottles, Len(bottles))

\* The cell of a record under a column of the frame: NaN where the record
\* lacks the key.
Cell(b, c) ==
    IF c \in DOMAIN b THEN b[c]
    ELSE IF c \in NumericFields THEN NullNum
    ELSE IF c = "flavor_profile" THEN NaNProfile
    ELSE NaNStr

\* Whether the record holds a dict under flavor_profile:
\* isinstance(profile, dict).
HasProfile(b) == "flavor_profile" \in DOMAIN b /\ b.flavor_profile # NaNProfile

(***************************************************************************)
(* WhiskyRecommender._load_bottle_data                                     *)
(***************************************************************************)
DefaultRating == 3

\* pd.to_numeric(..., errors='coerce').fillna(default)
CoerceNumeric(x, default) == IF x = NullNum THEN default ELSE x

LoadRow(b, fileColumns) ==
    Table([c \in Range(AppendNew(fileColumns, RequiredColumns)) |->
              IF c = "rating" THEN CoerceNumeric(Cell(b, c), DefaultRating)
              ELSE IF c \in NumericFields THEN CoerceNumeric(Cell(b, c), 0)
              ELSE IF c = "flavor_profile"
              THEN (IF HasProfile(b) THEN b.flavor_profile ELSE <<>>)
              ELSE IF c \notin Range(fileColumns) THEN NoneStr
              ELSE Cell(b, c)])

_load_bottle_data(file) ==
    LET fileColumns == DataFrameColumns(file)
    IN  [columns |-> AppendNew(fileColumns, RequiredColumns),
         rows |-> Table([i \in DOMAIN file |-> LoadRow(file[i], fileColumns)])]

(***************************************************************************)
(* BaxusAPI                                                                *)
(***************************************************************************)
\* float(x) and int(x) raise TypeError on None.
ConversionRaises(b) == \E f \in NumericFields : Get(b, f, 0) = NullNum

_normalize_bottle(b) ==
    [bottle_id |-> Get(b, "bottle_id", ""),
     name |-> Get(b, "name", ""),
     brand |-> Get(b, "brand", ""),
     region |-> Get(b, "region", ""),
     style |-> Get(b, "style", ""),
     country |-> Get(b, "country", ""),
     price |-> Get(b, "price", 0),
     age |-> Get(b, "age", 0),
     abv |-> Get(b, "abv", 0),
     rating |-> Get(b, "rating", DefaultRating),
     flavor_profile |-> Get(b, "flavor_profile", <<>>)]

_normalize_bottles(bottles) ==
    IF \E i \in DOMAIN bottles : ConversionRaises(bottles[i])
    THEN [raised |-> TRUE, error |-> "TypeError", value |-> <<>>]
    ELSE [raised |-> FALSE, error |-> "",
          value |-> Table([i \in DOMAIN bottles |-> _normalize_bottle(bottles[i])])]

TransportFailures == {"timeout", "connection_error", "http_error"}

EmptyBar == [bottles |-> <<>>, wishlist |-> <<>>]

\* response: what requests.get yields for the user: a transport failure, a
\* JSON list of bottles, or a JSON object with bottles and wishlist.
get_user_bar(response) ==
    IF response.kind \in TransportFailures
    THEN [raised |-> FALSE, error |-> "", value |-> EmptyBar]
    ELSE IF response.kind = "list"
    THEN LET bottles == _normalize_bottles(response.bottles)
         IN  IF bottles.raised THEN bottles
             ELSE [raised |-> FALSE, error |-> "",
                   value |-> [bottles |-> bottles.value, wishlist |-> <<>>]]
    ELSE LET bottles == _normalize_bottles(response.bottles)
             wishlist == _normalize_bottles(response.wishlist)
         IN  IF bottles.raised THEN bottles
             ELSE IF wishlist.raised THEN wishlist
             ELSE [raised |-> FALSE, error |-> "",
                   value |-> [bottles |-> bottles.value,
                              wishlist |-> wishlist.value]]

\* The responses the model lets the provider give.
Responses ==
    [kind : TransportFailures \cup {"list"}, bottles : {<<>>}, wishlist : {<<>>}]
    \cup [kind : {"list"}, bottles : {<<OwnedArdbeg>>}, wishlist : {<<>>}]
    \cup [kind : {"dict"}, bottles : SubSeqsUpTo(BarPool, MaxOwned),
          wishlist : SubSeqsUpTo(WishPool, MaxWishlist)]
    \cup [kind : {"dict"}, bottles : {<<OwnedIslay>>, <<Broken>>},
          wishlist : {<<>>}]
    \cup [kind : {"dict"}, bottles : {<<>>}, wishlist : {<<Broken>>}]

(***************************************************************************)
(* CollectionAnalyzer                                                      *)
(***************************************************************************)
\* sorted(items, key=lambda x: x[1], reverse=True): descending in the value
\* of the [k, v] items, stable among ties.
SortDescStable(s) ==
    LET Rank(i) ==
            1 + Cardinality({j \in DOMAIN s :
                    \/ RatLess(s[i].v, s[j].v)
                    \/ (RatCmp(s[i].v, s[j].v) = 0 /\ j < i)})
    IN  [r \in 1..Len(s) |-> s[CHOOSE i \in DOMAIN s : Rank(i) = r]]

\* The distinct elements of s in first-seen order.
Distinct(s) ==
    Pick(s, {i \in DOMAIN s : \A j \in 1..(i - 1) : s[j] # s[i]})

Count(s, x) == Cardinality({i \in DOMAIN s : s[i] = x})

RECURSIVE SumInts(_, _)
SumInts(s, n) == IF n = 0 THEN 0 ELSE SumInts(s, n - 1) + s[n]

RECURSIVE SumRatsRange(_, _, _)
SumRatsRange(s, lo, hi) ==
    IF hi < lo THEN Zero
    ELSE IF lo = hi THEN s[lo]
    ELSE LET mid == (lo + hi) \div 2
         IN  RatAdd(SumRatsRange(s, lo, mid), SumRatsRange(s, mid + 1, hi))

SumRats(s, n) == SumRatsRange(s, 1, n)

SeqMin(s) == CHOOSE x \in Range(s) : \A y \in Range(s) : x <= y
SeqMax(s) == CHOOSE x \in Range(s) : \A y \in Range(s) : x >= y

\* Series.value_counts(normalize=True).to_dict(): the share of each value
\* among the cells that are not missing, most frequent first.
ValueCounts(bottles, field) ==
    LET known == SelectSeq([i \in DOMAIN bottles |-> Cell(bottles[i], field)],
                        LAMBDA x : ~isna(x))
        keys == Distinct(known)
        items == [i \in DOMAIN keys |->
                     [k |-> keys[i], v |-> Rat(Count(known, keys[i]), Len(known))]]
    IN  SortDescStable(items)

_extract_region_preferences(bottles) ==
    IF \A i \in DOMAIN bottles : isna(Cell(bottles[i], "region")) THEN <<>>
    ELSE ValueCounts(bottles, "region")

_extract_style_preferences(bottles) ==
    IF \A i \in DOMAIN bottles : isna(Cell(bottles[i], "style")) THEN <<>>
    ELSE ValueCounts(bottles, "style")

\* The min, max and mean pandas gives for a column without values: NaN.
NaNRange ==
    [min |-> [n |-> 0, d |-> 0], max |-> [n |-> 0, d |-> 0],
     avg |-> [n |-> 0, d |-> 0]]

ZeroRange == [min |-> Zero, max |-> Zero, avg |-> Zero]

\* min, max and mean of the cells of a numeric column that are not missing.
NumericRange(bottles, field) ==
    LET known == SelectSeq([i \in DOMAIN bottles |-> Cell(bottles[i], field)],
                        LAMBDA x : x # NullNum)
    IN  IF Len(known) = 0 THEN ZeroRange
        ELSE [min |-> Int2Rat(SeqMin(known)),
              max |-> Int2Rat(SeqMax(known)),
              avg |-> Rat(SumInts(known, Len(known)), Len(known))]

_extract_price_range(bottles) == NumericRange(bottles, "price")

_extract_age_preference(bottles) == NumericRange(bottles, "age")

RECURSIVE FlattenProfiles(_, _)
\* The (flavor, intensity) items of the bottles' flavor dicts, in order.
FlattenProfiles(bottles, n) ==
    IF n = 0 THEN <<>>
    ELSE FlattenProfiles(bottles, n - 1)
         \o (IF HasProfile(bottles[n]) THEN bottles[n].flavor_profile ELSE <<>>)

_extract_flavor_profile(bottles) ==
    LET items == FlattenProfiles(bottles, Len(bottles))
        keys == Distinct([i \in DOMAIN items |-> items[i].k])
        Sum(key) ==
            LET vs == SelectSeq(items, LAMBDA e : e.k = key)
            IN  SumRats([i \in DOMAIN vs |-> vs[i].v], Len(vs))
        combined == [i \in DOMAIN keys |-> [k |-> keys[i], v |-> Sum(keys[i])]]
        total == SumRats([i \in DOMAIN combined |-> combined[i].v], Len(combined))
    IN  IF RatLess(Zero, total)
        THEN [i \in DOMAIN combined |->
                 [k |-> combined[i].k,
                  v |-> RatMul(combined[i].v, [n |-> total.d, d |-> total.n])]]
        ELSE combined

TopN == 5

\* The labels without the cut characteristics[:top_n].
AllCharacteristics(regions, styles, flavors) ==
    LET top_regions == Head2(SortDescStable(regions), 2)
        top_styles == Head2(SortDescStable(styles), 2)
        top_flavors == Head2(SortDescStable(flavors), 3)
    IN  [i \in DOMAIN top_regions |-> "Region: " \o top_regions[i].k]
        \o [i \in DOMAIN top_styles |-> "Style: " \o top_styles[i].k]
        \o [i \in DOMAIN top_flavors |-> "Flavor: " \o top_flavors[i].k]

_identify_top_characteristics(regions, styles, flavors) ==
    LET top_regions == Head2(SortDescStable(regions), 2)
        top_styles == Head2(SortDescStable(styles), 2)
        top_flavors == Head2(SortDescStable(flavors), 3)
    IN  Head2([i \in DOMAIN top_regions |-> "Region: " \o top_regions[i].k]
              \o [i \in DOMAIN top_styles |-> "Style: " \o top_styles[i].k]
              \o [i \in DOMAIN top_flavors |-> "Flavor: " \o top_flavors[i].k],
              TopN)

analyze_collection(bottles) ==
    IF Len(bottles) = 0
    THEN [regions |-> <<>>, styles |-> <<>>, price_range |-> ZeroRange,
          age_preference |-> ZeroRange, flavor_profile |-> <<>>,
          top_characteristics |-> <<>>]
    ELSE LET region_counts == _extract_region_preferences(bottles)
             style_counts == _extract_style_preferences(bottles)
             flavor_profile == _extract_flavor_profile(bottles)
         IN  [regions |-> region_counts,
              styles |-> style_counts,
              price_range |-> _extract_price_range(bottles),
              age_preference |-> _extract_age_preference(bottles),
              flavor_profile |-> flavor_profile,
              top_characteristics |->
                  _identify_top_characteristics(region_counts, style_counts,
                                                flavor_profile)]

(***************************************************************************)
(* FeatureProcessor                                                        *)
(***************************************************************************)
categorical_features == <<"region", "style", "country", "category">>

numerical_features == <<"price", "age", "abv", "rating">>

\* A missing float cell.
NaNRat == [n |-> 0, d |-> 0]

IsNaNRat(x) == x.d = 0

\* The ascending sort of a sequence of integers.
SortInts(s) ==
    LET Rank(i) ==
            1 + Cardinality({j \in DOMAIN s : s[j] < s[i] \/ (s[j] = s[i] /\ j < i)})
    IN  [r \in 1..Len(s) |-> s[CHOOSE i \in DOMAIN s : Rank(i) = r]]

\* Series.median() of the cells that are not missing (NaN if there is none).
Median(values) ==
    LET known == SortInts(SelectSeq(values, LAMBDA x : x # NullNum))
        n == Len(known)
    IN  IF n = 0 THEN NaNRat
        ELSE IF n % 2 = 1 THEN Int2Rat(known[(n + 1) \div 2])
        ELSE Rat(known[n \div 2] + known[(n \div 2) + 1], 2)

RatMin(s) == CHOOSE x \in Range(s) : \A y \in Range(s) : RatLeq(x, y)
RatMax(s) == CHOOSE x \in Range(s) : \A y \in Range(s) : RatLeq(y, x)

\* (x - min) / (max - min) as it stands: undefined (NaN) in every row of a
\* constant column.
ScaleByRange(column) ==
    IF \E i \in DOMAIN column : IsNaNRat(column[i])
    THEN [i \in DOMAIN column |-> NaNRat]
    ELSE LET lo == RatMin(column)
             span == RatSub(RatMax(column), lo)
         IN  Table([i \in DOMAIN column |->
                       IF span.n = 0 THEN NaNRat
                       ELSE RatMul(RatSub(column[i], lo),
                                   [n |-> span.d, d |-> span.n])])

\* MinMaxScaler().fit_transform of one column: (x - min) / (max - min), and 0
\* for every row when the column is constant.
MinMaxScale(column) ==
    IF \E i \in DOMAIN column : IsNaNRat(column[i])
    THEN [i \in DOMAIN column |-> NaNRat]
    ELSE LET lo == RatMin(column)
             hi == RatMax(column)
             span == RatSub(hi, lo)
         IN  Table([i \in DOMAIN column |->
                       IF span.n = 0 THEN Zero
                       ELSE RatMul(RatSub(column[i], lo),
                                   [n |-> span.d, d |-> span.n])])

\* df[feature].fillna(df[feature].median()) followed by the scaling.
ScaledColumn(bottles, field) ==
    LET values == Table([i \in DOMAIN bottles |-> Cell(bottles[i], field)])
        median == Median(values)
    IN  MinMaxScale(Table([i \in DOMAIN values |->
                              IF values[i] = NullNum THEN median
                              ELSE Int2Rat(values[i])]))

\* df[feature].fillna('Unknown')
Category(b, field) ==
    IF isna(Cell(b, field)) THEN "Unknown" ELSE Cell(b, field)

\* The columns pd.get_dummies(df[feature], prefix=feature) adds: one per
\* distinct value, in sorted order of the values.
DummyColumns(bottles, field) ==
    LET values == {Category(bottles[i], field) : i \in DOMAIN bottles}
        sorted == SelectSeq(SortedStrings, LAMBDA v : v \in values)
    IN  [i \in DOMAIN sorted |->
            [name |-> field \o "_" \o sorted[i], kind |-> "dummy",
             field |-> field, value |-> sorted[i]]]

RECURSIVE AllDummyColumns(_, _, _)
AllDummyColumns(bottles, columns, n) ==
    IF n = 0 THEN <<>>
    ELSE AllDummyColumns(bottles, columns, n - 1)
         \o (IF categorical_features[n] \in Range(columns)
             THEN DummyColumns(bottles, categorical_features[n]) ELSE <<>>)

\* The flavor names of the batch: the keys of its flavor dicts.
AllFlavors(bottles) ==
    UNION {DKeys(bottles[i].flavor_profile) :
              i \in {j \in DOMAIN bottles : HasProfile(bottles[j])}}

\* The orders list(set) may give the flavor names: the iteration order of a
\* set of strings depends on the interpreter's string hashing.
FlavorOrders(bottles) ==
    LET flavors == AllFlavors(bottles)
        n == Cardinality(flavors)
    IN  {f \in [1..n -> flavors] : \A i, j \in 1..n : f[i] = f[j] => i = j}

\* self.flavor_features after process_bottles on a batch with the given
\* columns, by appending the names listed to the ones already there.
FlavorFeaturesExtended(columns, earlier, listed) ==
    IF "flavor_profile" \in Range(columns)
    THEN earlier \o SelectSeq(listed, LAMBDA f : f \notin Range(earlier))
    ELSE earlier

\* self.flavor_features after process_bottles on a batch with the given
\* columns: list(all_flavors) when the batch has a flavor_profile column, what
\* it was before the call when it has none.
FlavorFeaturesAfter(columns, earlier, listed) ==
    IF "flavor_profile" \in Range(columns) THEN listed ELSE earlier

\* _process_flavor_profiles: one column per flavor name, in the given order.
FlavorColumns(columns, flavors) ==
    IF "flavor_profile" \in Range(columns)
    THEN [i \in DOMAIN flavors |->
             [name |-> "flavor_" \o flavors[i], kind |-> "flavor",
              field |-> "flavor_profile", value |-> flavors[i]]]
    ELSE <<>>

DroppedColumns == Range(categorical_features) \cup {"name", "brand", "description"}

\* process_bottles on the records `bottles` whose keys come in the order
\* `columns`, when list(all_flavors) comes out as flavors.  The
\* result is a frame whose numeric cells are rationals; bottle_id and
\* flavor_profile pass through unchanged.
ProcessFrame(columns, bottles, flavors) ==
    LET kept == SelectSeq(columns, LAMBDA c : c \notin DroppedColumns)
        passed == [i \in DOMAIN kept |->
                      [name |-> kept[i],
                       kind |-> IF kept[i] \in Range(numerical_features)
                                THEN "numeric" ELSE "object",
                       field |-> kept[i], value |-> ""]]
        descs == passed
                 \o AllDummyColumns(bottles, columns, Len(categorical_features))
                 \o FlavorColumns(columns, flavors)
        Desc(c) == CHOOSE x \in Range(descs) : x.name = c
        scaled == Table([f \in Range(numerical_features) |->
                            ScaledColumn(bottles, f)])
        CellOf(i, x) ==
            IF x.kind = "numeric" THEN scaled[x.field][i]
            ELSE IF x.kind = "dummy"
            THEN (IF Category(bottles[i], x.field) = x.value THEN One ELSE Zero)
            ELSE IF x.kind = "flavor"
            THEN (IF HasProfile(bottles[i])
                  THEN DGet(bottles[i].flavor_profile, x.value, Zero) ELSE Zero)
            ELSE Cell(bottles[i], x.field)
    IN  [columns |-> Table([i \in DOMAIN descs |-> descs[i].name]),
         rows |-> [i \in DOMAIN bottles |->
                      Table([c \in {descs[j].name : j \in DOMAIN descs} |->
                                CellOf(i, Desc(c))])]]

\* process_bottles with the rows of the matrix in reverse order of the batch.
ProcessReversed(bottles, flavors) ==
    ProcessFrame(DataFrameColumns(bottles), Reverse(bottles), flavors)

\* process_bottles(bottles) for a list of records.
process_bottles(bottles, flavors) ==
    ProcessFrame(DataFrameColumns(bottles), bottles, flavors)

(***************************************************************************)
(* WhiskyRecommender._calculate_recommendations                            *)
(***************************************************************************)
Returned(v) == [raised |-> FALSE, error |-> "", value |-> v]
Raised(e) == [raised |-> TRUE, error |-> e, value |-> <<>>]

\* The columns whose cells are Python objects, not numbers.
ObjectColumns == {"bottle_id", "flavor_profile"}

\* df[columns].mean(axis=0) of one column.
ColumnMean(df, c) ==
    LET cells == [i \in DOMAIN df.rows |-> df.rows[i][c]]
    IN  IF \E i \in DOMAIN cells : IsNaNRat(cells[i]) THEN NaNRat
        ELSE RatDivInt(SumRats(cells, Len(cells)), Len(cells))

\* The sum over the columns of x[c] * y[c].
RECURSIVE DotRange(_, _, _, _, _)
\* The sum over columns[lo..hi], added up by halves.
DotRange(x, y, columns, lo, hi) ==
    IF hi < lo THEN Zero
    ELSE IF lo = hi THEN RatMul(x[columns[lo]], y[columns[lo]])
    ELSE LET mid == (lo + hi) \div 2
         IN  RatAdd(DotRange(x, y, columns, lo, mid),
                    DotRange(x, y, columns, mid + 1, hi))

Dot(x, y, columns, n) == DotRange(x, y, columns, 1, n)

\* The square of sklearn's cosine_similarity of two rows: 0 when one of them
\* is the zero vector.
CosineSquared(u, c, columns) ==
    LET uu == Dot(u, u, columns, Len(columns))
        cc == Dot(c, c, columns, Len(columns))
        uc == Dot(u, c, columns, Len(columns))
    IN  IF uu.n = 0 \/ cc.n = 0 THEN Zero
        ELSE RatMul(RatMul(uc, [n |-> uu.d, d |-> uu.n]),
                    RatMul(uc, [n |-> cc.d, d |-> cc.n]))

PenaltyFactor == Rat(7, 10)
BandLow == Rat(7, 10)
BandHigh == Rat(3, 2)

\* The price-range step: the factor applied to the score of the row whose
\* cell in the candidate frame's price column is `price`.
PriceFactor(price_range, price) ==
    IF RatLess(Zero, price_range.avg)
       /\ (\/ RatLess(price, RatMul(price_range.avg, BandLow))
           \/ RatLess(RatMul(price_range.avg, BandHigh), price))
    THEN PenaltyFactor
    ELSE One

\* The square of the real number a score stands for.
ScoreSquared(s) == RatMul(RatMul(s.factor, s.factor), s.cos2)

\* The columns of the user frame that the candidate frame has too.
CommonColumns(user_features_df, candidate_features_df) ==
    SelectSeq(user_features_df.columns,
           LAMBDA c : c \in Range(candidate_features_df.columns))

\* The common columns with bottle_id among the features.
WithIdentityColumn(user_features_df, candidate_features_df) ==
    CommonColumns(user_features_df, candidate_features_df)

\* The columns the user vector and the candidate rows are taken over: the
\* common columns but bottle_id.
feature_columns(user_features_df, candidate_features_df) ==
    SelectSeq(CommonColumns(user_features_df, candidate_features_df),
              LAMBDA c : c # "bottle_id")

\* similarity_scores after the price step, one per candidate row.
similarity_scores(user_features_df, candidate_features_df, user_preferences) ==
    LET common_columns == CommonColumns(user_features_df, candidate_features_df)
        columns == feature_columns(user_features_df, candidate_features_df)
        user_vector == Table([c \in Range(columns) |->
                                 ColumnMean(user_features_df, c)])
    IN  Table([i \in DOMAIN candidate_features_df.rows |->
            [cos2 |-> CosineSquared(user_vector, candidate_features_df.rows[i],
                                    columns),
             factor |-> IF "price" \in Range(common_columns)
                        THEN PriceFactor(user_preferences.price_range,
                                         candidate_features_df.rows[i]["price"])
                        ELSE One]])

\* The indices in I in ascending order of key, ties in index order.
StableAscending(I, key) ==
    LET Rank(i) ==
            1 + Cardinality({j \in I :
                    key[j] < key[i] \/ (key[j] = key[i] /\ j < i)})
    IN  [r \in 1..Cardinality(I) |-> CHOOSE i \in I : Rank(i) = r]

RECURSIVE TopPrefixes(_, _, _)
\* The sequences of k indices of I that a descending order of key may start
\* with.
TopPrefixes(I, k, key) ==
    IF k = 0 \/ I = {} THEN {<<>>}
    ELSE UNION {{<<i>> \o t : t \in TopPrefixes(I \ {i}, k - 1, key)} :
                   i \in {j \in I : \A m \in I : key[m] <= key[j]}}

\* The position of each score among the distinct scores: equal scores get
\* equal keys, a greater score a greater key.
ScoreKeys(scores) ==
    LET sq == Table([i \in DOMAIN scores |-> ScoreSquared(scores[i])])
    IN  Table([i \in DOMAIN scores |->
                  Cardinality({j \in DOMAIN scores : RatLess(sq[j], sq[i])})])

\* The results similarity_scores.argsort() may give: ascending in score, the
\* order among equal scores left open by numpy's default sort.  The orders
\* listed differ in their last k positions, every way those can come out.
ArgsortOrders(scores, k) ==
    LET key == ScoreKeys(scores)
        ascending == StableAscending(DOMAIN scores, key)
    IN  {SelectSeq(ascending, LAMBDA i : i \notin Range(p)) \o Reverse(p) :
            p \in TopPrefixes(DOMAIN scores, k, key)}

\* The first n elements of s, s[:n]: the slice at the wrong end of the
\* ascending argsort result.
FirstN(s, n) == IF Len(s) <= n THEN s ELSE SubSeq(s, 1, n)

\* The last n elements of s, s[-n:].
LastN(s, n) == IF Len(s) <= n THEN s ELSE SubSeq(s, Len(s) - n + 1, Len(s))

\* str(bottle.get(column, '')) on a row of bottles_df.
Display(df, bottle, column) ==
    IF column \in Range(df.columns) THEN Str(bottle[column]) ELSE ""

\* The record built from the catalog row at the candidate's position, not
\* from the row with the candidate's bottle_id.
RecommendationByPosition(df, candidate_features_df, columns, scores, idx) ==
    IF "bottle_id" \notin Range(columns) THEN <<>>
    ELSE LET bottle_id == candidate_features_df.rows[idx]["bottle_id"]
             bottle == df.rows[idx]
         IN  <<[bottle_id |-> Str(bottle_id),
                name |-> Str(bottle.name),
                brand |-> Display(df, bottle, "brand"),
                region |-> Display(df, bottle, "region"),
                style |-> Display(df, bottle, "style"),
                price |-> bottle.price,
                age |-> bottle.age,
                score |-> scores[idx],
                abv |-> bottle.abv,
                flavor_profile |-> bottle.flavor_profile,
                description |-> Display(df, bottle, "description"),
                reason |-> ""]>>

\* The record built for the candidate row idx, or <<>> when the row is
\* skipped (no bottle_id column, or no catalog row with that id).
Recommendation(df, candidate_features_df, columns, scores, idx) ==
    IF "bottle_id" \notin Range(columns) THEN <<>>
    ELSE LET bottle_id == candidate_features_df.rows[idx]["bottle_id"]
             bottle_data == SelectSeq(df.rows, LAMBDA b : b.bottle_id = bottle_id)
         IN  IF Len(bottle_data) = 0 THEN <<>>
             ELSE LET bottle == bottle_data[1]
                  IN  <<[bottle_id |-> Str(bottle_id),
                         name |-> Str(bottle.name),
                         brand |-> Display(df, bottle, "brand"),
                         region |-> Display(df, bottle, "region"),
                         style |-> Display(df, bottle, "style"),
                         price |-> bottle.price,
                         age |-> bottle.age,
                         score |-> scores[idx],
                         abv |-> bottle.abv,
                         flavor_profile |-> bottle.flavor_profile,
                         description |-> Display(df, bottle, "description"),
                         reason |-> ""]>>

RECURSIVE Recommendations(_, _, _, _, _, _)
\* The loop over the first n entries of top_indices.
Recommendations(df, candidate_features_df, columns, scores, top_indices, n) ==
    IF n = 0 THEN <<>>
    ELSE Recommendations(df, candidate_features_df, columns, scores, top_indices, n - 1)
         \o Recommendation(df, candidate_features_df, columns, scores, top_indices[n])

Min(a, b) == IF a <= b THEN a ELSE b

\* The error the similarity step raises on the two frames, "" if none: no
\* feature column in common, the mean of a column of dicts, or a NaN handed
\* to cosine_similarity.
RankingError(user_features_df, candidate_features_df) ==
    LET columns == feature_columns(user_features_df, candidate_features_df)
    IN  IF Len(columns) = 0 THEN "ValueError"
        ELSE IF \E c \in Range(columns) : c \in ObjectColumns
        THEN "TypeError"
        ELSE IF \E c \in Range(columns) :
                    \/ IsNaNRat(ColumnMean(user_features_df, c))
                    \/ IsNaNRat(ColumnMean(candidate_features_df, c))
        THEN "ValueError"
        ELSE ""

\* The selection step without the loop's break at count: a record for every
\* one of the 2 * count pre-selected rows.
AllPreselected(df, candidate_features_df, columns, scores, count, order) ==
    LET top_indices == Reverse(LastN(order, count * 2))
    IN  Recommendations(df, candidate_features_df, columns, scores, top_indices,
                        Len(top_indices))

\* The selection step: top_indices from the argsort result `order`, and the
\* loop that builds at most count records.
TopRecommendations(df, candidate_features_df, columns, scores, count, order) ==
    LET top_indices == Reverse(LastN(order, count * 2))
    IN  Recommendations(df, candidate_features_df, columns, scores, top_indices,
                        Min(count, Len(top_indices)))

\* _calculate_recommendations on the catalog df, when argsort() gives `order`.
_calculate_recommendations(df, user_features_df, candidate_features_df, user_preferences, count, order) ==
    IF RankingError(user_features_df, candidate_features_df) # ""
    THEN Raised(RankingError(user_features_df, candidate_features_df))
    ELSE Returned(TopRecommendations(
                      df, candidate_features_df,
                      CommonColumns(user_features_df, candidate_features_df),
                      similarity_scores(user_features_df, candidate_features_df,
                                        user_preferences),
                      count, order))

(***************************************************************************)
(* WhiskyRecommender._add_recommendation_reasoning                         *)
(***************************************************************************)
RECURSIVE Join(_, _, _)
\* sep.join(s[1..n])
Join(s, sep, n) ==
    IF n = 0 THEN ""
    ELSE IF n = 1 THEN s[1]
    ELSE Join(s, sep, n - 1) \o sep \o s[n]

\* The region rule with the threshold met at 0.1 already.
RegionReasonFromTenth(rec, prefs) ==
    IF rec.region # "" /\ RatLeq(Rat(1, 10), DGet(prefs.regions, rec.region, Zero))
    THEN <<"Matches your preference for " \o rec.region \o " whiskies">>
    ELSE <<>>

\* The rule of recommender.py:203-204: the sentence for a region that is more
\* than 0.1 of the collection.
RegionReason(rec, prefs) ==
    IF rec.region # "" /\ RatLess(Rat(1, 10), DGet(prefs.regions, rec.region, Zero))
    THEN <<"Matches your preference for " \o rec.region \o " whiskies">>
    ELSE <<>>

StyleReason(rec, prefs) ==
    IF rec.style # "" /\ RatLess(Rat(1, 10), DGet(prefs.styles, rec.style, Zero))
    THEN <<"Aligns with your interest in " \o rec.style \o " whiskies">>
    ELSE <<>>

PriceReason(rec, prefs) ==
    LET avg == prefs.price_range.avg
    IN  IF RatLess(Zero, avg) /\ rec.price > 0
        THEN LET price_ratio == RatMul(Int2Rat(rec.price), [n |-> avg.d, d |-> avg.n])
             IN  IF RatLeq(Rat(8, 10), price_ratio) /\ RatLeq(price_ratio, Rat(12, 10))
                 THEN <<"Similar price point to your collection">>
                 ELSE IF RatLess(price_ratio, Rat(8, 10))
                 THEN <<"Great value compared to your collection">>
                 ELSE IF RatLeq(price_ratio, Rat(15, 10))
                 THEN <<"Premium option within your price range">>
                 ELSE <<>>
        ELSE <<>>

AgeReason(rec, prefs) ==
    LET avg == prefs.age_preference.avg
    IN  IF RatLess(Zero, avg) /\ rec.age # 0
        THEN LET diff == RatSub(Int2Rat(rec.age), avg)
             IN  IF RatLeq([n |-> Abs(diff.n), d |-> diff.d], Int2Rat(3))
                 THEN <<"Age statement (" \o ToString(rec.age)
                        \o " years) similar to your collection">>
                 ELSE IF RatLess(Int2Rat(3), diff)
                 THEN <<"More mature expression (" \o ToString(rec.age)
                        \o " years) than your average">>
                 ELSE <<>>
        ELSE <<>>

FlavorReason(rec, prefs) ==
    LET matching == SelectSeq(prefs.flavor_profile,
                       LAMBDA e : /\ RatLess(Rat(1, 10), e.v)
                                  /\ e.k \in DKeys(rec.flavor_profile)
                                  /\ RatLess(Rat(5, 10),
                                             DGet(rec.flavor_profile, e.k, Zero)))
        flavor_matches == [i \in DOMAIN matching |-> matching[i].k]
        n == Len(flavor_matches)
    IN  IF n = 0 THEN <<>>
        ELSE IF n = 1
        THEN <<"Matches your preference for " \o flavor_matches[1] \o " notes">>
        ELSE <<"Shares flavor notes you enjoy: "
               \o Join(flavor_matches, ", ", n - 1) \o " and " \o flavor_matches[n]>>

GenericReason(rec, prefs) ==
    <<"Complements your current collection">>
    \o (IF rec.region # "" /\ ~RatLess(Zero, DGet(prefs.regions, rec.region, Zero))
        THEN <<"Diversifies your collection with a " \o rec.region \o " whisky">>
        ELSE <<>>)
    \o (IF rec.style # "" /\ ~RatLess(Zero, DGet(prefs.styles, rec.style, Zero))
        THEN <<"Adds variety with a " \o rec.style \o " style">>
        ELSE <<>>)

\* The reason with the generic sentences after the fired ones in every case.
ReasonAlwaysGeneric(rec, prefs) ==
    LET reasons == RegionReason(rec, prefs) \o StyleReason(rec, prefs)
                   \o PriceReason(rec, prefs) \o AgeReason(rec, prefs)
                   \o FlavorReason(rec, prefs) \o GenericReason(rec, prefs)
    IN  Join(reasons, ". ", Len(reasons))

\* The text of rec['reason']: the sentences of the rules that fired, or the
\* generic ones when none did, joined with ". ".
ReasonText(rec, prefs) ==
    LET fired == RegionReason(rec, prefs) \o StyleReason(rec, prefs)
                 \o PriceReason(rec, prefs) \o AgeReason(rec, prefs)
                 \o FlavorReason(rec, prefs)
        reasons == IF Len(fired) = 0 THEN GenericReason(rec, prefs) ELSE fired
    IN  Join(reasons, ". ", Len(reasons))

\* rec with rec['reason'] = text.
WithReason(rec, text) ==
    [f \in DOMAIN rec \cup {"reason"} |-> IF f = "reason" THEN text ELSE rec[f]]

_add_recommendation_reasoning(recommendations, user_preferences) ==
    [i \in DOMAIN recommendations |->
        WithReason(recommendations[i],
                   ReasonText(recommendations[i], user_preferences))]

(***************************************************************************)
(* WhiskyRecommender._get_default_recommendations                          *)
(***************************************************************************)
DefaultScore == [factor |-> Rat(95, 100), cos2 |-> One]

\* The results sort_values('rating', ascending=False).head(n) may give: the
\* row indices by descending rating, the order among equal ratings left
\* open by the default sort.
TopRated(df, n) ==
    TopPrefixes(DOMAIN df.rows, Min(n, Len(df.rows)),
                Table([i \in DOMAIN df.rows |-> df.rows[i].rating]))

DefaultRecord(bottle, df) ==
    [bottle_id |-> Str(bottle.bottle_id),
     name |-> Str(bottle.name),
     brand |-> Display(df, bottle, "brand"),
     region |-> Display(df, bottle, "region"),
     style |-> Display(df, bottle, "style"),
     price |-> bottle.price,
     age |-> bottle.age,
     score |-> DefaultScore,
     abv |-> bottle.abv,
     flavor_profile |-> bottle.flavor_profile,
     description |-> Display(df, bottle, "description")]

\* The diversity rule with `or` for `and`: a bottle is passed over as soon as
\* its region or its style was seen.
EitherSeenSkip(region, style, regions, styles, chosen, count) ==
    (region \in regions \/ style \in styles) /\ 2 * chosen > count

\* Whether the walk passes over a bottle for diversity.
DiversitySkip(region, style, regions, styles, chosen, count) ==
    (region \in regions /\ style \in styles) /\ 2 * chosen > count

RECURSIVE DefaultWalk(_, _, _, _)
\* The loop over the first n rows of top_bottles: the records chosen and the
\* regions and styles seen.
DefaultWalk(df, top_bottles, count, n) ==
    IF n = 0 THEN [recommendations |-> <<>>, regions |-> {}, styles |-> {}]
    ELSE LET before == DefaultWalk(df, top_bottles, count, n - 1)
             bottle == df.rows[top_bottles[n]]
             region == Display(df, bottle, "region")
             style == Display(df, bottle, "style")
         IN  IF Len(before.recommendations) >= count THEN before
             ELSE IF isna(bottle.bottle_id) \/ isna(bottle.name) THEN before
             ELSE IF DiversitySkip(region, style, before.regions, before.styles,
                                   Len(before.recommendations), count)
             THEN before
             ELSE [recommendations |->
                       Append(before.recommendations, DefaultRecord(bottle, df)),
                   regions |-> before.regions \cup {region},
                   styles |-> before.styles \cup {style}]

DefaultReason(rec, i) ==
    LET region == IF rec.region # "" THEN rec.region ELSE "quality"
        style == IF rec.style # "" THEN rec.style ELSE "premium"
    IN  IF i = 1
        THEN "A highly-rated " \o region
             \o " whisky perfect for starting your collection"
        ELSE IF i = 2
        THEN "An excellent " \o style
             \o " style that's widely appreciated by whisky enthusiasts"
        ELSE IF i = 3
        THEN "A versatile " \o region
             \o " whisky that showcases classic characteristics"
        ELSE "A distinguished bottle that represents the best of " \o region
             \o " whisky"

\* _get_default_recommendations when the sort gives top_bottles.
_get_default_recommendations(df, count, include_reasoning, top_bottles) ==
    LET recommendations ==
            DefaultWalk(df, top_bottles, count, Len(top_bottles)).recommendations
    IN  IF include_reasoning
        THEN [i \in DOMAIN recommendations |->
                 WithReason(recommendations[i],
                            DefaultReason(recommendations[i], i))]
        ELSE recommendations

(***************************************************************************)
(* WhiskyRecommender.get_recommendations and the state machine             *)
(***************************************************************************)
EmptyFrame == [columns |-> <<>>, rows |-> <<>>]

NoResponse == [kind |-> "none", bottles |-> <<>>, wishlist |-> <<>>]

NoCall ==
    [op |-> "none", response |-> NoResponse, count |-> 0,
     include_reasoning |-> FALSE, frames |-> "none"]

EmptyProfile == analyze_collection(<<>>)

Counts == 1..MaxCount

\* The ids of a list of bottle records.
Ids(bottles) == {bottles[i].bottle_id : i \in DOMAIN bottles}

\* bottles_df[~bottles_df['bottle_id'].isin(user_bottle_ids + wishlist_ids)]
candidate_bottles(df, user_bottles, wishlist_bottles) ==
    SelectSeq(df.rows,
           LAMBDA b : b.bottle_id \notin Ids(user_bottles) \cup Ids(wishlist_bottles))

\* frame without the named column.
DropColumn(frame, c) ==
    [columns |-> SelectSeq(frame.columns, LAMBDA x : x # c),
     rows |-> [i \in DOMAIN frame.rows |->
                  LET row == frame.rows[i]
                  IN  Table([x \in DOMAIN row \ {c} |-> row[x]])]]

\* What the ranking step leaves in `ranking`.
RankingOf(candidates, scores) ==
    [i \in DOMAIN candidates |->
        [bottle_id |-> candidates[i].bottle_id, price |-> candidates[i].price,
         score |-> scores[i]]]

\* frame without the columns in `dropped`.
Frame(frame, dropped) ==
    IF dropped = {} THEN frame
    ELSE DropColumn(frame, CHOOSE c \in dropped : TRUE)

\* The similarity step of _calculate_recommendations on two feature frames:
\* the error it raises ("" if none) and, if none, the common columns and the
\* scores after the price step.
SimilarityStep(user_features_df, candidate_features_df, user_preferences) ==
    LET error == RankingError(user_features_df, candidate_features_df)
        user == [user_features_df EXCEPT !.rows = Table(@)]
        cand == [candidate_features_df EXCEPT !.rows = Table(@)]
    IN  IF error # ""
        THEN [error |-> error, columns |-> <<>>,
              candidate_features_df |-> EmptyFrame, scores |-> <<>>]
        ELSE [error |-> "", columns |-> CommonColumns(user, cand),
              candidate_features_df |-> cand,
              scores |-> similarity_scores(user, cand, user_preferences)]

\* process_bottles of the two lists on the engine's processor, under every
\* order list(set) may give the flavor names, followed by the similarity
\* step; flavor_features is what the processor holds afterwards.
FeatureSteps(df, user_bottles, candidates, user_preferences, dropped, earlier) ==
    {LET uf == FlavorFeaturesAfter(DataFrameColumns(user_bottles), earlier, fu)
         cf == FlavorFeaturesAfter(df.columns, uf, fc)
     IN  [flavor_features |-> cf]
         @@ SimilarityStep(
                Frame(process_bottles(user_bottles, uf), dropped),
                Frame(ProcessFrame(df.columns, candidates, cf), dropped),
                user_preferences) :
        fu \in FlavorOrders(user_bottles), fc \in FlavorOrders(candidates)}

\* What get_recommendations works out from the provider's response before it
\* reads count and include_reasoning: the two lists, the candidates, the
\* analysis and the outcomes of feature processing and similarity.  The
\* last two are worked out only where the code reaches them.
Preparation(df, response, dropped, earlier) ==
    LET user_bar == get_user_bar(response)
        user_bottles == user_bar.value.bottles
        candidates == candidate_bottles(df, user_bottles, user_bar.value.wishlist)
        analysed == ~user_bar.raised /\ Len(user_bottles) > 0
        personalized == analysed /\ Len(candidates) > 0
        user_preferences == IF analysed THEN analyze_collection(user_bottles)
                            ELSE EmptyProfile
    IN  [user_bar |-> user_bar,
         candidates |-> IF user_bar.raised THEN <<>> ELSE candidates,
         user_preferences |-> user_preferences,
         steps |-> IF personalized
                   THEN FeatureSteps(df, user_bottles, candidates,
                                     user_preferences, dropped, earlier)
                   ELSE {}]

Init ==
    /\ file_state \in FileStates
    /\ catalog_file \in (IF file_state = "ok" THEN CatalogFiles ELSE {<<>>})
    /\ bottles_df = EmptyFrame
    /\ flavor_features = <<>>
    /\ pc = "new"
    /\ call = NoCall
    /\ path = "none"
    /\ ran = {}
    /\ profile = EmptyProfile
    /\ ranking = <<>>
    /\ result = Returned(<<>>)

\* WhiskyRecommender(): the catalog is loaded once, from the file as it is
\* then, and the engine gets a FeatureProcessor of its own.  A missing file
\* raises FileNotFoundError, a malformed one makes json.load raise.  The engine
\* constructed takes the place of the one before.
Construct ==
    /\ pc \in {"new", "failed", "ready"}
    /\ IF file_state = "ok"
       THEN /\ bottles_df' = _load_bottle_data(catalog_file)
            /\ pc' = "ready"
            /\ result' = Returned(<<>>)
       ELSE /\ bottles_df' = EmptyFrame
            /\ pc' = "failed"
            /\ result' = Raised(IF file_state = "missing"
                                THEN "FileNotFoundError" ELSE "JSONDecodeError")
    /\ flavor_features' = <<>>
    /\ UNCHANGED <<file_state, catalog_file, call, path, ran, profile, ranking>>

\* The catalog with the default in every cell of the rating column.
RatingsReset(df) ==
    [df EXCEPT !.rows = Table([i \in DOMAIN df.rows |->
                                  [df.rows[i] EXCEPT !["rating"] = DefaultRating]])]

\* The catalog as _get_default_recommendations leaves it: a frame without a
\* rating column is given one, holding the default in every row.
WithDefaultRating(df) ==
    IF "rating" \in Range(df.columns) THEN df
    ELSE [columns |-> Append(df.columns, "rating"),
          rows |-> Table([i \in DOMAIN df.rows |->
                             Table([c \in DOMAIN df.rows[i] \cup {"rating"} |->
                                       IF c = "rating" THEN DefaultRating
                                       ELSE df.rows[i][c]])])]

\* The fallback branch of get_recommendations.
Fallback(count, include_reasoning, analysed) ==
    \E top_bottles \in TopRated(WithDefaultRating(bottles_df), count * 3) :
        /\ bottles_df' = WithDefaultRating(bottles_df)
        /\ flavor_features' = flavor_features
        /\ result' = Returned(_get_default_recommendations(
                                  WithDefaultRating(bottles_df), count,
                                  include_reasoning, top_bottles))
        /\ path' = "fallback"
        /\ ran' = analysed
        /\ ranking' = <<>>

\* The similarity branch: what _calculate_recommendations returns or raises
\* after the similarity step `step`, then the reasoning.
Personalized(step, candidates, user_preferences, count, include_reasoning, invoked) ==
    IF step.error # ""
    THEN /\ result' = Raised(step.error)
         /\ ran' = invoked
         /\ ranking' = <<>>
    ELSE \E order \in ArgsortOrders(step.scores, count) :
            LET recommendations ==
                    TopRecommendations(bottles_df, step.candidate_features_df,
                                       step.columns, step.scores, count, order)
            IN  /\ result' = Returned(
                       IF include_reasoning
                       THEN _add_recommendation_reasoning(recommendations,
                                                          user_preferences)
                       ELSE recommendations)
                /\ ran' = invoked \cup (IF include_reasoning
                                        THEN {"reasoning"} ELSE {})
                /\ ranking' = RankingOf(candidates, step.scores)

\* get_recommendations(username, count, include_reasoning) when the provider
\* answers the request for the user's bar as `prepared` records.
get_recommendations(prepared, count, include_reasoning) ==
    LET user_bar == prepared.user_bar
        user_bottles == user_bar.value.bottles
    IN  IF user_bar.raised
        THEN /\ result' = Raised(user_bar.error)
             /\ bottles_df' = bottles_df
             /\ flavor_features' = flavor_features
             /\ path' = "none"
             /\ ran' = {}
             /\ profile' = EmptyProfile
             /\ ranking' = <<>>
        ELSE IF Len(user_bottles) = 0
        THEN /\ Fallback(count, include_reasoning, {})
             /\ profile' = EmptyProfile
        ELSE IF Len(prepared.candidates) = 0
        THEN /\ Fallback(count, include_reasoning, {"analyzer"})
             /\ profile' = prepared.user_preferences
        ELSE /\ path' = "personalized"
             /\ bottles_df' = bottles_df
             /\ profile' = prepared.user_preferences
             /\ \E step \in prepared.steps :
                    /\ flavor_features' = step.flavor_features
                    /\ Personalized(step, prepared.candidates,
                                    prepared.user_preferences, count,
                                    include_reasoning,
                                    {"analyzer", "feature_processor"})

GetRecommendations ==
    /\ pc = "ready"
    /\ \E response \in Responses :
       \E prepared \in {Preparation(bottles_df, response, {}, flavor_features)} :
       \E count \in Counts, include_reasoning \in BOOLEAN :
          /\ call' = [op |-> "get_recommendations", response |-> response,
                      count |-> count, include_reasoning |-> include_reasoning,
                      frames |-> "as_processed"]
          /\ get_recommendations(prepared, count, include_reasoning)
    /\ pc' = "done"
    /\ UNCHANGED <<file_state, catalog_file>>

\* _calculate_recommendations called on feature frames of a resolved,
\* non-empty collection and the remaining catalog: the frames of
\* process_bottles without the flavor_profile column, made by a feature
\* processor that has listed no flavor before.
CalculateRecommendations ==
    /\ pc = "ready"
    /\ flavor_features = <<>>
    /\ \E response \in Responses :
       \E prepared \in {Preparation(bottles_df, response, {"flavor_profile"}, <<>>)} :
       \E step \in prepared.steps, count \in Counts :
          /\ call' = [op |-> "_calculate_recommendations", response |-> response,
                      count |-> count, include_reasoning |-> FALSE,
                      frames |-> "features_only"]
          /\ path' = "personalized"
          /\ profile' = prepared.user_preferences
          /\ Personalized(step, prepared.candidates, prepared.user_preferences,
                          count, FALSE, {})
    /\ pc' = "done"
    /\ UNCHANGED <<file_state, catalog_file, bottles_df, flavor_features>>

\* Analyses that differ from `prefs` in the region weights alone: those of a
\* collection of 20 bottles with 1, 2 or 10 from Islay and the rest from
\* Kentucky, and that of one with 10 from Kentucky, 8 whose region is the
\* empty string and 2 from Islay.
RegionProfiles(prefs) ==
    {[prefs EXCEPT !.regions = <<[k |-> "Kentucky", v |-> Rat(20 - n, 20)],
                                 [k |-> "Islay", v |-> Rat(n, 20)]>>] :
        n \in {1, 2, 10}}
    \cup {[prefs EXCEPT !.regions = <<[k |-> "Kentucky", v |-> Rat(10, 20)],
                                      [k |-> "", v |-> Rat(8, 20)],
                                      [k |-> "Islay", v |-> Rat(2, 20)]>>]}

\* _add_recommendation_reasoning called on the list the ranking returned,
\* with the analysis of the collection or one of the analyses above.
AddRecommendationReasoning ==
    /\ pc = "done"
    /\ call.op = "_calculate_recommendations"
    /\ ~result.raised
    /\ call' = [call EXCEPT !.op = "_add_recommendation_reasoning",
                            !.include_reasoning = TRUE]
    /\ \E user_preferences \in {profile} \cup RegionProfiles(profile) :
          /\ profile' = user_preferences
          /\ result' = Returned(_add_recommendation_reasoning(result.value,
                                                              user_preferences))
    /\ ran' = ran \cup {"reasoning"}
    /\ UNCHANGED <<file_state, catalog_file, bottles_df, flavor_features, pc, path,
                   ranking>>

\* CollectionAnalyzer.analyze_collection called on a list of records, as given
\* or as the provider client normalizes them.
AnalyzeCollection ==
    /\ pc = "ready"
    /\ \E bottles \in SubSeqsUpTo(AnalyzerPool, MaxOwned), normalized \in BOOLEAN :
          /\ call' = [op |-> "analyze_collection",
                      response |-> [kind |-> "list", bottles |-> bottles,
                                    wishlist |-> <<>>],
                      count |-> 0, include_reasoning |-> FALSE,
                      frames |-> IF normalized THEN "normalized" ELSE "as_given"]
          /\ profile' = analyze_collection(
                            IF normalized THEN _normalize_bottles(bottles).value
                            ELSE bottles)
    /\ pc' = "analysed"
    /\ ran' = {"analyzer"}
    /\ UNCHANGED <<file_state, catalog_file, bottles_df, flavor_features, path,
                   ranking, result>>

\* process_bottles called on a batch of records, on the engine's
\* FeatureProcessor; the matrix is left in result.value.
ProcessBottles ==
    /\ pc = "ready"
    /\ \E bottles \in SubSeqsUpTo(BatchPool, MaxBatch) :
       \E listed \in FlavorOrders(bottles) :
       \E after \in {FlavorFeaturesAfter(DataFrameColumns(bottles),
                                          flavor_features, listed)} :
          /\ call' = [op |-> "process_bottles",
                      response |-> [kind |-> "list", bottles |-> bottles,
                                    wishlist |-> <<>>],
                      count |-> 0, include_reasoning |-> FALSE,
                      frames |-> "as_given"]
          /\ result' = Returned(process_bottles(bottles, after))
          /\ flavor_features' = after
    /\ pc' = "processed"
    /\ ran' = {"feature_processor"}
    /\ UNCHANGED <<file_state, catalog_file, bottles_df, path, profile, ranking>>

\* DataProcessor.load_bottles: the list of the file's records, and the empty
\* list when the file is missing or json.load raises.
LoadBottles ==
    /\ pc \in {"new", "ready", "failed"}
    /\ call' = [NoCall EXCEPT !.op = "load_bottles"]
    /\ result' = Returned(IF file_state = "ok" THEN catalog_file ELSE <<>>)
    /\ pc' = "loaded"
    /\ UNCHANGED <<file_state, catalog_file, bottles_df, flavor_features, path,
                   ran, profile, ranking>>

\* The filters get_bottles_by_criteria is called with, at most MaxFilters of
\* them supplied at once: NoneStr and NullNum stand for an argument left at
\* None.
Criteria ==
    {criteria \in [region : {NoneStr, "Islay"}, style : {NoneStr, "Single Malt"},
                   min_price : {NullNum, 60}, max_price : {NullNum, 150},
                   min_age : {NullNum, 10}, max_age : {NullNum, 12}] :
        Cardinality({f \in {"region", "style"} : criteria[f] # NoneStr})
          + Cardinality({f \in {"min_price", "max_price", "min_age", "max_age"} :
                            criteria[f] # NullNum}) <= MaxFilters}

\* Whether the loop of get_bottles_by_criteria appends the bottle: a bound on
\* price or age is looked at only when the bottle's value is truthy.
PassesFilters(bottle, criteria) ==
    LET price == Get(bottle, "price", NullNum)
        age == Get(bottle, "age", NullNum)
    IN  /\ ~(criteria.region # NoneStr
             /\ Get(bottle, "region", NoneStr) # criteria.region)
        /\ ~(criteria.style # NoneStr
             /\ Get(bottle, "style", NoneStr) # criteria.style)
        /\ (price # NullNum /\ price # 0) =>
               /\ ~(criteria.min_price # NullNum /\ price < criteria.min_price)
               /\ ~(criteria.max_price # NullNum /\ price > criteria.max_price)
        /\ (age # NullNum /\ age # 0) =>
               /\ ~(criteria.min_age # NullNum /\ age < criteria.min_age)
               /\ ~(criteria.max_age # NullNum /\ age > criteria.max_age)

get_bottles_by_criteria(bottles, criteria) ==
    SelectSeq(bottles, LAMBDA bottle : PassesFilters(bottle, criteria))

\* DataProcessor.get_bottles_by_criteria: load_bottles, then the filters.
GetBottlesByCriteria ==
    /\ pc \in {"new", "ready", "failed"}
    /\ \E criteria \in Criteria :
          /\ call' = [op |-> "get_bottles_by_criteria", response |-> NoResponse,
                      count |-> 0, include_reasoning |-> FALSE,
                      frames |-> "none", criteria |-> criteria]
          /\ result' = Returned(get_bottles_by_criteria(
                                    IF file_state = "ok" THEN catalog_file
                                    ELSE <<>>, criteria))
    /\ pc' = "filtered"
    /\ UNCHANGED <<file_state, catalog_file, bottles_df, flavor_features, path,
                   ran, profile, ranking>>

\* The lists save_bottles is called with.
SavedLists == {<<>>, <<Lagavulin>>}

\* DataProcessor.save_bottles: the file holds the list and True is returned.
\* When makedirs or open raises, the file is as it was and False is returned;
\* when the write raises after open(path, 'w') has emptied the file, what is
\* left is not a JSON document and False is returned.
SaveBottles ==
    /\ pc \in {"new", "ready", "failed"}
    /\ \E bottles \in SavedLists, outcome \in {"written", "unopened", "truncated"} :
          /\ call' = [op |-> "save_bottles",
                      response |-> [kind |-> "list", bottles |-> bottles,
                                    wishlist |-> <<>>],
                      count |-> 0, include_reasoning |-> FALSE,
                      frames |-> "none"]
          /\ file_state' = IF outcome = "written" THEN "ok"
                            ELSE IF outcome = "truncated" THEN "malformed"
                            ELSE file_state
          /\ catalog_file' = IF outcome = "written" THEN bottles
                              ELSE IF outcome = "truncated" THEN <<>>
                              ELSE catalog_file
          /\ result' = Returned(outcome = "written")
    /\ pc' = "saved"
    /\ UNCHANGED <<bottles_df, flavor_features, path, ran, profile, ranking>>

\* The caller takes the result; the engine, when there is one, is ready for
\* the next call.
Return ==
    /\ pc \in {"done", "analysed", "processed", "loaded", "filtered", "saved"}
    /\ pc' = IF bottles_df = EmptyFrame THEN "new" ELSE "ready"
    /\ call' = NoCall
    /\ path' = "none"
    /\ ran' = {}
    /\ profile' = EmptyProfile
    /\ ranking' = <<>>
    /\ result' = Returned(<<>>)
    /\ UNCHANGED <<file_state, catalog_file, bottles_df, flavor_features>>

Next ==
    \/ Construct
    \/ GetRecommendations
    \/ CalculateRecommendations
    \/ AddRecommendationReasoning
    \/ AnalyzeCollection
    \/ ProcessBottles
    \/ LoadBottles
    \/ GetBottlesByCriteria
    \/ SaveBottles
    \/ Return

Spec == Init /\ [][Next]_vars

(***************************************************************************)
(* Properties.  Each is a predicate on the state a call leaves behind      *)
(* (pc = "done"): the arguments in `call`, the branch in `path`, the       *)
(* collaborators in `ran`, the scores in `ranking`, the outcome in         *)
(* `result`.                                                               *)
(***************************************************************************)
\* What the provider client makes of the response of the call.
UserBar == get_user_bar(call.response)

\* user_bottles and wishlist_bottles of the call (empty when the client
\* raised).
Owned == IF UserBar.raised THEN <<>> ELSE UserBar.value.bottles

Wishlist == IF UserBar.raised THEN <<>> ELSE UserBar.value.wishlist

\* A call of get_recommendations has ended, by return or by exception.
Ended == pc = "done" /\ call.op = "get_recommendations"

\* The provider did not deliver a collection: the request failed, or a
\* record of the response cannot be normalized.
Unresolved ==
    \/ call.response.kind \in TransportFailures
    \/ \E i \in DOMAIN call.response.bottles :
           ConversionRaises(call.response.bottles[i])
    \/ \E i \in DOMAIN call.response.wishlist :
           ConversionRaises(call.response.wishlist[i])

\* The lists default_recommendations may return for the call.
FallbackResults ==
    {_get_default_recommendations(bottles_df, call.count,
                                  call.include_reasoning, top_bottles) :
        top_bottles \in TopRated(bottles_df, call.count * 3)}

\* C1: no record that get_recommendations returns has the bottle_id of a
\* bottle in the user's owned list or wishlist, whichever path produced the
\* result.
NeverOwnedOrWishlisted ==
    (Ended /\ ~result.raised) =>
        \A i \in DOMAIN result.value :
            result.value[i].bottle_id \notin Ids(Owned) \cup Ids(Wishlist)

\* C2: whatever the provider does (a collection, a timeout, a connection
\* error, an HTTP error, records that cannot be normalized),
\* get_recommendations returns a list and raises nothing; when the collection
\* is not resolved the client yields empty lists and the list returned is
\* the fallback result.
NeverRaises ==
    Ended =>
        /\ ~result.raised
        /\ Unresolved =>
              /\ ~UserBar.raised
              /\ UserBar.value = EmptyBar
              /\ path = "fallback"
              /\ result.value \in FallbackResults

\* C3: a call that returns hands back at most count records, on the
\* similarity path and on the fallback path.
AtMostCount ==
    (pc = "done" /\ ~result.raised) => Len(result.value) <= call.count

\* A ranking of more candidates than count, cut to count records.
AtMostCountWitness ==
    /\ pc = "done"
    /\ call.op = "_calculate_recommendations"
    /\ ~result.raised
    /\ Len(ranking) > call.count
    /\ Len(result.value) = call.count

\* C4: get_recommendations returns the fallback result exactly when the owned
\* list is empty or no catalog bottle is left after the exclusion; otherwise
\* it returns the similarity ranking; the analysis and the feature processing
\* run in that second case only.
FallbackExactlyWhenNothingToRank ==
    (Ended /\ ~UserBar.raised) =>
        IF Len(Owned) = 0
           \/ Len(candidate_bottles(bottles_df, Owned, Wishlist)) = 0
        THEN /\ path = "fallback"
             /\ ~result.raised
             /\ result.value \in FallbackResults
             /\ ran \cap {"analyzer", "feature_processor"} = {}
        ELSE /\ path = "personalized"
             /\ ~result.raised
             /\ {"analyzer", "feature_processor"} \subseteq ran

\* A similarity ranking was computed and returned.
Ranked == pc = "done" /\ path = "personalized" /\ ~result.raised

\* price lies outside [0.7 * avg, 1.5 * avg].
OutsideBand(price, avg) ==
    \/ RatLess(Int2Rat(price), RatMul(avg, Rat(7, 10)))
    \/ RatLess(RatMul(avg, Rat(3, 2)), Int2Rat(price))

\* The adjusted score factor * sqrt(cos2) is k times the cosine score
\* sqrt(cos2).
ScoreIsTimes(score, k) == score.factor = k \/ score.cos2 = Zero

\* C5: with a positive average price of the collection, a candidate whose
\* catalog price is below 0.7 times or above 1.5 times the average has the
\* score 0.7 times its cosine score.
PenalizedOutsideBand ==
    (Ranked /\ RatLess(Zero, profile.price_range.avg)) =>
        \A i \in DOMAIN ranking :
            OutsideBand(ranking[i].price, profile.price_range.avg)
                => ScoreIsTimes(ranking[i].score, Rat(7, 10))

\* C6: a candidate whose catalog price is inside the band keeps its cosine
\* score, and so does every candidate when the average price is 0.
UnchangedInsideBand ==
    Ranked =>
        \A i \in DOMAIN ranking :
            (\/ ~RatLess(Zero, profile.price_range.avg)
             \/ ~OutsideBand(ranking[i].price, profile.price_range.avg))
                => ScoreIsTimes(ranking[i].score, One)

\* The bottle ids of the records returned.
ReturnedIds == {result.value[i].bottle_id : i \in DOMAIN result.value}

\* The candidates the result leaves out.
LeftOut == {i \in DOMAIN ranking : ranking[i].bottle_id \notin ReturnedIds}

\* C7: the records of a similarity ranking are in non-increasing order of
\* adjusted score and are the count highest-scoring candidates: each is a
\* candidate with its score, there are count of them (all candidates if
\* fewer), and no candidate left out scores strictly higher than a record
\* returned, so pre-selecting 2 * count rows takes nothing away.
TopCountByScore ==
    Ranked =>
        /\ Len(result.value) = Min(call.count, Len(ranking))
        /\ \A i, j \in DOMAIN result.value :
               /\ i < j => RatLeq(ScoreSquared(result.value[j].score),
                                  ScoreSquared(result.value[i].score))
               /\ i # j => result.value[i].bottle_id # result.value[j].bottle_id
        /\ \A i \in DOMAIN result.value :
               \E c \in DOMAIN ranking :
                   /\ ranking[c].bottle_id = result.value[i].bottle_id
                   /\ ranking[c].score = result.value[i].score
        /\ \A c \in LeftOut : \A i \in DOMAIN result.value :
               RatLeq(ScoreSquared(ranking[c].score),
                      ScoreSquared(result.value[i].score))

\* More candidates than the 2 * count pre-selected, of which one left out
\* scores strictly below a record returned and two records returned differ
\* in score.
TopCountByScoreWitness ==
    /\ Ranked
    /\ Len(ranking) > 2 * call.count
    /\ \E c \in LeftOut : \E i \in DOMAIN result.value :
           RatLess(ScoreSquared(ranking[c].score),
                   ScoreSquared(result.value[i].score))

\* C8: called with include_reasoning = false, every record returned carries
\* the reason "", from the similarity ranking and from the fallback alike,
\* and no reasoning rule is evaluated.
EmptyReasonWithoutReasoning ==
    (Ended /\ ~result.raised /\ ~call.include_reasoning) =>
        /\ "reasoning" \notin ran
        /\ \A i \in DOMAIN result.value :
               /\ "reason" \in DOMAIN result.value[i]
               /\ result.value[i].reason = ""

\* The catalog's bottles have pairwise distinct ratings, and each has a
\* bottle_id and a name.
DistinctlyRated ==
    /\ \A i, j \in DOMAIN bottles_df.rows :
           i # j => /\ bottles_df.rows[i].rating # bottles_df.rows[j].rating
                    /\ bottles_df.rows[i].bottle_id # bottles_df.rows[j].bottle_id
    /\ \A i \in DOMAIN bottles_df.rows :
           ~isna(bottles_df.rows[i].bottle_id) /\ ~isna(bottles_df.rows[i].name)

\* The catalog row in place p of the descending order of rating.
ByRating(p) ==
    CHOOSE i \in DOMAIN bottles_df.rows :
        Cardinality({j \in DOMAIN bottles_df.rows :
            bottles_df.rows[j].rating > bottles_df.rows[i].rating}) = p - 1

\* default_recommendations returned, on a catalog of distinctly rated
\* bottles.
DefaultsReturned == pc = "done" /\ path = "fallback" /\ DistinctlyRated

\* Every record returned has the score 0.95.
DefaultScores ==
    \A i \in DOMAIN result.value :
        result.value[i].score = [factor |-> Rat(95, 100), cos2 |-> One]

\* The place in the descending order of rating of the bottle of record i.
PlaceOf(i) ==
    CHOOSE p \in DOMAIN bottles_df.rows :
        bottles_df.rows[ByRating(p)].bottle_id = result.value[i].bottle_id

\* The records taken from places before p.
TakenBefore(p) == {i \in DOMAIN result.value : PlaceOf(i) < p}

\* A record taken before place p has the (region, style) pair of the bottle
\* at place p.
PairTakenBefore(p) ==
    LET bottle == bottles_df.rows[ByRating(p)]
    IN  \E i \in TakenBefore(p) :
            /\ result.value[i].region = Display(bottles_df, bottle, "region")
            /\ result.value[i].style = Display(bottles_df, bottle, "style")

\* In the walk that gave the result the test of recommender.py:293 on the set
\* of regions and the set of styles agrees with the rule on (region, style)
\* pairs: wherever the region and the style of a bottle among the 3 * count
\* highest-rated both occur among the records taken before it, one of those
\* records has both.
PairsDecide ==
    \A p \in 1..Min(3 * call.count, Len(bottles_df.rows)) :
        LET bottle == bottles_df.rows[ByRating(p)]
        IN  (/\ \E i \in TakenBefore(p) :
                    result.value[i].region = Display(bottles_df, bottle, "region")
             /\ \E i \in TakenBefore(p) :
                    result.value[i].style = Display(bottles_df, bottle, "style"))
                => PairTakenBefore(p)

\* C9 as stated: on a catalog of distinctly rated bottles with ids and names,
\* default_recommendations returns the count highest-rated bottles (all of
\* them if the catalog has fewer) in descending order of rating, each with
\* the score 0.95.  Stated of the walks in which PairsDecide.
DefaultsAreTopRated ==
    (DefaultsReturned /\ PairsDecide) =>
        /\ Len(result.value) = Min(call.count, Len(bottles_df.rows))
        /\ \A i \in DOMAIN result.value :
               result.value[i].bottle_id = bottles_df.rows[ByRating(i)].bottle_id
        /\ DefaultScores

\* C9, amended: default_recommendations returns at most count records, each
\* with the score 0.95, taken in descending order of rating from the
\* 3 * count highest-rated bottles; while fewer than count records are taken,
\* a bottle among those is left out exactly when more than count / 2 records
\* are taken before it and one of them has its (region, style) pair.  Stated
\* of the walks in which PairsDecide.  On the ten bottles rated 1..10 with
\* count = 3 the result is the bottles rated 10, 9 and 8.
DefaultsAreTopRatedDiverse ==
    (DefaultsReturned /\ PairsDecide) =>
        LET places == 1..Min(3 * call.count, Len(bottles_df.rows))
            taken == {PlaceOf(i) : i \in DOMAIN result.value}
        IN  /\ Len(result.value) <= call.count
            /\ DefaultScores
            /\ \A i \in DOMAIN result.value :
                   \E p \in places :
                       bottles_df.rows[ByRating(p)].bottle_id
                           = result.value[i].bottle_id
            /\ \A i, j \in DOMAIN result.value : i < j => PlaceOf(i) < PlaceOf(j)
            /\ \A p \in places :
                   LET before == TakenBefore(p)
                   IN  Cardinality(before) < call.count =>
                           (p \notin taken
                               <=> (/\ 2 * Cardinality(before) > call.count
                                    /\ PairTakenBefore(p)))
            /\ (catalog_file = TenRatedCatalog /\ call.count = 3) =>
                   [i \in DOMAIN result.value |-> result.value[i].bottle_id]
                       = <<"rated-10", "rated-9", "rated-8">>

\* A bottle among the count highest-rated is passed over for its pair: the
\* catalog holds count bottles or more, and fewer are returned.
DefaultsAreTopRatedDiverseWitness ==
    /\ DefaultsReturned
    /\ PairsDecide
    /\ Len(bottles_df.rows) >= call.count
    /\ Len(result.value) < call.count

\* The collection of the end-to-end scenario: one Islay Single Malt at 50.
EndToEndResponse ==
    [kind |-> "dict", bottles |-> <<OwnedIslay>>, wishlist |-> <<>>]

\* C10: for the owner of one Islay Single Malt (price 50, smoky 0.9), with an
\* Islay Single Malt at 55 (smoky 0.8) and a bourbon at 200 in the catalog,
\* the ranking completes without error and puts the Islay bottle first.
EndToEndIslayFirst ==
    (Ended /\ catalog_file = EndToEndCatalog /\ call.response = EndToEndResponse)
        => /\ ~result.raised
           /\ Len(result.value) > 0
           /\ result.value[1].bottle_id = "islay-55"

\* The records analyze_collection was called on, before any normalization.
Collection == call.response.bottles

\* C11: analyze_collection([]) returns the profile with empty regions, styles
\* and flavor_profile, price_range and age_preference of min 0, max 0 and
\* avg 0, and no top characteristics.
EmptyCollectionProfile ==
    (pc = "analysed" /\ Len(Collection) = 0) =>
        profile = [regions |-> <<>>,
                   styles |-> <<>>,
                   price_range |-> [min |-> [n |-> 0, d |-> 1],
                                    max |-> [n |-> 0, d |-> 1],
                                    avg |-> [n |-> 0, d |-> 1]],
                   age_preference |-> [min |-> [n |-> 0, d |-> 1],
                                       max |-> [n |-> 0, d |-> 1],
                                       avg |-> [n |-> 0, d |-> 1]],
                   flavor_profile |-> <<>>,
                   top_characteristics |-> <<>>]

\* The analyzer returned from a call on the empty list.
EmptyCollectionProfileWitness ==
    /\ pc = "analysed"
    /\ call.op = "analyze_collection"
    /\ Collection = <<>>

\* The bottles of the list that carry a region.
KnownRegion(bottles) == {i \in DOMAIN bottles : "region" \in DOMAIN bottles[i]}

\* The weights of an insertion-ordered dict.
Weights(m) == [i \in DOMAIN m |-> m[i].v]

\* C12: for a collection with a known region, regions maps each region to
\* the share of its bottles among the bottles with a known region, the
\* shares sum to 1, and a bottle without a region adds no key and no weight,
\* also when the list was normalized by the provider client first.
RegionShares ==
    (pc = "analysed" /\ KnownRegion(Collection) # {}) =>
        LET known == KnownRegion(Collection)
            names == {Collection[i].region : i \in known}
        IN  /\ DKeys(profile.regions) = names
            /\ Len(profile.regions) = Cardinality(names)
            /\ \A r \in names :
                   DGet(profile.regions, r, Zero)
                       = Rat(Cardinality({i \in known : Collection[i].region = r}),
                             Cardinality(known))
            /\ SumRats(Weights(profile.regions), Len(profile.regions)) = One

\* The (flavor, intensity) items listed by the bottles of the collection.
Intensities == FlattenProfiles(Collection, Len(Collection))

\* The sum of the intensities listed for the flavors in `flavors`.
IntensitySum(flavors) ==
    LET listed == SelectSeq(Intensities, LAMBDA e : e.k \in flavors)
    IN  SumRats(Weights(listed), Len(listed))

\* C13: flavor_profile maps each flavor to the sum of its intensities over
\* the collection divided by the grand total, so the weights sum to 1, when
\* the grand total is greater than 0; it is the empty mapping when the grand
\* total is 0.
FlavorShares ==
    pc = "analysed" =>
        LET flavors == DKeys(Intensities)
            total == IntensitySum(flavors)
        IN  IF RatLess(Zero, total)
            THEN /\ DKeys(profile.flavor_profile) = flavors
                 /\ Len(profile.flavor_profile) = Cardinality(flavors)
                 /\ \A f \in flavors :
                        DGet(profile.flavor_profile, f, Zero)
                            = RatMul(IntensitySum({f}),
                                     [n |-> total.d, d |-> total.n])
                 /\ SumRats(Weights(profile.flavor_profile),
                            Len(profile.flavor_profile)) = One
            ELSE profile.flavor_profile = <<>>

\* The ways to list the n highest-weight keys of m (all of them if m has
\* fewer) in descending weight, each behind the prefix.
TopLabels(m, n, prefix) ==
    LET k == IF Len(m) <= n THEN Len(m) ELSE n
        picks == {p \in [1..k -> DOMAIN m] :
                     /\ \A i, j \in 1..k : i < j =>
                            /\ p[i] # p[j]
                            /\ RatLeq(m[p[j]].v, m[p[i]].v)
                     /\ \A i \in 1..k : \A o \in DOMAIN m :
                            (\A j \in 1..k : p[j] # o) => RatLeq(m[o].v, m[p[i]].v)}
    IN  {[i \in 1..k |-> prefix \o m[p[i]].k] : p \in picks}

\* The first n entries of s.
FirstEntries(s, n) == IF Len(s) <= n THEN s ELSE SubSeq(s, 1, n)

\* C14: top_characteristics is the labels of the up to 2 highest-weight
\* regions, then of the up to 2 highest-weight styles, then of the up to 3
\* highest-weight flavors, each group in descending weight, cut to the
\* first 5: never more than 5 entries, and at most 1 flavor behind 2 regions
\* and 2 styles.
TopFiveCharacteristics ==
    pc = "analysed" =>
        /\ profile.top_characteristics \in
               {FirstEntries(r \o t \o f, 5) :
                   r \in TopLabels(profile.regions, 2, "Region: "),
                   t \in TopLabels(profile.styles, 2, "Style: "),
                   f \in TopLabels(profile.flavor_profile, 3, "Flavor: ")}
        /\ Len(profile.top_characteristics) <= 5
        /\ (Len(profile.regions) >= 2 /\ Len(profile.styles) >= 2) =>
               Len(profile.top_characteristics) - 4 <= 1

\* Two regions, two styles and three flavors: the cut drops two flavors.
TopFiveCharacteristicsWitness ==
    /\ pc = "analysed"
    /\ Len(profile.regions) >= 2
    /\ Len(profile.styles) >= 2
    /\ Len(profile.flavor_profile) >= 3
    /\ Len(profile.top_characteristics) = 5

\* The batch process_bottles was called on.
Batch == call.response.bottles

\* process_bottles has ended, by return or by exception.
Processed == pc = "processed" /\ call.op = "process_bottles"

\* C15: called on a batch of records, process_bottles raises a schema error
\* when no record of the batch carries a bottle_id, and never returns a matrix
\* without the bottle_id column.
SchemaErrorWithoutBottleId ==
    (Processed /\ Len(Batch) > 0) =>
        /\ (\A i \in DOMAIN Batch : "bottle_id" \notin DOMAIN Batch[i])
               => result.raised
        /\ ~result.raised => "bottle_id" \in Range(result.value.columns)

\* Every record of the batch has a bottle_id, and no two have the same.
UniqueIds ==
    /\ \A i \in DOMAIN Batch : "bottle_id" \in DOMAIN Batch[i]
    /\ \A i, j \in DOMAIN Batch :
           i # j => Batch[i].bottle_id # Batch[j].bottle_id

\* C16: for a batch with unique ids the matrix has one row per bottle, in the
\* order of the batch: row i carries the bottle_id of bottle i.
RowsFollowBatch ==
    (Processed /\ ~result.raised /\ UniqueIds /\ Len(Batch) > 0) =>
        /\ "bottle_id" \in Range(result.value.columns)
        /\ DOMAIN result.value.rows = DOMAIN Batch
        /\ \A i \in DOMAIN Batch :
               result.value.rows[i]["bottle_id"] = Batch[i].bottle_id

\* A matrix of two bottles with different ids.
RowsFollowBatchWitness ==
    /\ Processed
    /\ ~result.raised
    /\ UniqueIds
    /\ Len(Batch) >= 2
    /\ Len(result.value.rows) = Len(Batch)

\* Every row of the batch holds the same value in the numeric field.
ConstantField(field) ==
    /\ Len(Batch) > 0
    /\ \A i \in DOMAIN Batch :
           /\ field \in DOMAIN Batch[i]
           /\ Batch[i][field] # NullNum
           /\ Batch[i][field] = Batch[1][field]

\* C17: a numeric field that holds the same value in every row of the batch,
\* a single-row batch included, comes out as 0 in every row of the matrix,
\* never as an undefined value.
ConstantFieldScalesToZero ==
    (Processed /\ ~result.raised) =>
        \A field \in {"price", "age", "abv", "rating"} :
            ConstantField(field) =>
                /\ field \in Range(result.value.columns)
                /\ \A i \in DOMAIN result.value.rows :
                       result.value.rows[i][field] = [n |-> 0, d |-> 1]

\* Two bottles at the same price above 0.
ConstantFieldScalesToZeroWitness ==
    /\ Processed
    /\ ~result.raised
    /\ Len(Batch) >= 2
    /\ ConstantField("price")
    /\ Batch[1].price > 0
    /\ \A i \in DOMAIN result.value.rows : result.value.rows[i]["price"] = Zero

\* The flavor names behind the flavor_ columns of the matrix, in column
\* order.
FlavorColumnNames ==
    LET columns == SelectSeq(result.value.columns,
                             LAMBDA c : \E f \in AllFlavors(Batch) : c = "flavor_" \o f)
    IN  [i \in DOMAIN columns |->
            CHOOSE f \in AllFlavors(Batch) : columns[i] = "flavor_" \o f]

\* C18: process_bottles gives the same matrix each time it is called on a
\* batch: the flavor columns come in sorted order of the flavor names seen
\* in the batch, whatever order the set of names is iterated in.
SameMatrixEveryTime ==
    (Processed /\ ~result.raised) =>
        /\ FlavorColumnNames
               = SelectSeq(SortedStrings, LAMBDA f : f \in AllFlavors(Batch))
        /\ \A flavors \in FlavorOrders(Batch) :
               result.value = process_bottles(Batch, flavors)

\* _add_recommendation_reasoning has returned the ranked list with reasons.
Reasoned == pc = "done" /\ call.op = "_add_recommendation_reasoning" /\ ~result.raised

\* The weight of the recommendation's region in the profile, 0 when absent.
RegionWeight(rec) == DGet(profile.regions, rec.region, Zero)

RegionSentence(rec) == "Matches your preference for " \o rec.region \o " whiskies"

\* The sentences of the other rules that fire for the recommendation.
OtherSentences(rec) ==
    StyleReason(rec, profile) \o PriceReason(rec, profile)
    \o AgeReason(rec, profile) \o FlavorReason(rec, profile)

\* The reason of a recommendation the region rule fired for: the region
\* sentence, then the other sentences.
WithRegionSentence(rec) ==
    LET reasons == <<RegionSentence(rec)>> \o OtherSentences(rec)
    IN  Join(reasons, ". ", Len(reasons))

\* The reason of a recommendation the region rule did not fire for: the other
\* sentences, or the generic ones when there are none.
WithoutRegionSentence(rec) ==
    LET reasons == IF Len(OtherSentences(rec)) = 0
                   THEN GenericReason(rec, profile)
                   ELSE OtherSentences(rec)
    IN  Join(reasons, ". ", Len(reasons))

\* C19 as stated: with reasoning on, the reason of a personalized
\* recommendation holds the region-match sentence exactly when the weight of
\* its region in the profile is strictly above 0.1: a weight of 0.5 gives the
\* sentence, a weight of 0.05 or of exactly 0.1, or a region absent from the
\* profile, does not.
RegionSentenceAboveTenth ==
    Reasoned =>
        \A i \in DOMAIN result.value :
            LET rec == result.value[i]
            IN  IF RatLess(Rat(1, 10), RegionWeight(rec))
                THEN rec.reason = WithRegionSentence(rec)
                ELSE rec.reason = WithoutRegionSentence(rec)

\* C19, amended: with reasoning on, the reason of a personalized
\* recommendation holds the region-match sentence exactly when its region is
\* not the empty string and the weight of that region in the profile is
\* strictly above 0.1: a weight of 0.5 gives the sentence; a weight of 0.05 or
\* of exactly 0.1, a region absent from the profile, or the empty region at
\* any weight, does not.
RegionSentenceForNamedRegion ==
    Reasoned =>
        \A i \in DOMAIN result.value :
            LET rec == result.value[i]
            IN  IF rec.region # "" /\ RatLess(Rat(1, 10), RegionWeight(rec))
                THEN rec.reason = WithRegionSentence(rec)
                ELSE rec.reason = WithoutRegionSentence(rec)

\* One list with a recommendation from a region at exactly 0.1 of the profile,
\* without the sentence, one from a named region above 0.1, with it, and one
\* whose region is the empty string, above 0.1 in the profile, without it.
RegionSentenceForNamedRegionWitness ==
    /\ Reasoned
    /\ \E i \in DOMAIN result.value :
           /\ RegionWeight(result.value[i]) = Rat(1, 10)
           /\ result.value[i].reason = WithoutRegionSentence(result.value[i])
    /\ \E i \in DOMAIN result.value :
           /\ result.value[i].region # ""
           /\ RatLess(Rat(1, 10), RegionWeight(result.value[i]))
           /\ result.value[i].reason = WithRegionSentence(result.value[i])
    /\ \E i \in DOMAIN result.value :
           /\ result.value[i].region = ""
           /\ RatLess(Rat(1, 10), RegionWeight(result.value[i]))
           /\ result.value[i].reason = WithoutRegionSentence(result.value[i])

\* C20: with the catalog file missing or malformed every load of the catalog
\* ends in an error: no engine gets ready on it, and no load returns a catalog,
\* empty or not, for its callers to use.
LoadFailsWithoutCatalogFile ==
    file_state # "ok" =>
        /\ pc # "ready"
        /\ (pc = "loaded" /\ call.op = "load_bottles") => result.raised

\* C21: in the walk of default_recommendations over the 3 * count
\* highest-rated bottles, a bottle the walk comes to is passed over for
\* diversity exactly when a bottle already chosen has the same (region, style)
\* pair and more than half of the count places are filled; a bottle whose pair
\* is not among the chosen is taken, even when its region and its style each
\* occur among them.
SkippedOnlyForChosenPair ==
    DefaultsReturned =>
        LET places == 1..Min(3 * call.count, Len(bottles_df.rows))
            taken == {PlaceOf(i) : i \in DOMAIN result.value}
        IN  \A p \in places :
                LET bottle == bottles_df.rows[ByRating(p)]
                    before == TakenBefore(p)
                    pair_chosen ==
                        \E i \in before :
                            /\ result.value[i].region
                                   = Display(bottles_df, bottle, "region")
                            /\ result.value[i].style
                                   = Display(bottles_df, bottle, "style")
                IN  Cardinality(before) < call.count =>
                        (p \notin taken
                            <=> (pair_chosen /\ 2 * Cardinality(before) > call.count))

\* C22: the matrix process_bottles returns has no flavor_profile column, the
\* column of the original mappings: besides bottle_id every column of it is
\* numeric.
NoFlavorProfileColumn ==
    (Processed /\ ~result.raised) =>
        Range(result.value.columns) \cap ObjectColumns \subseteq {"bottle_id"}

\* The column of a numeric field with 0 in the rows where it is missing,
\* scaled over the batch.
ZeroFilled(field) ==
    MinMaxScale([i \in DOMAIN Batch |->
                    IF Cell(Batch[i], field) = NullNum THEN Zero
                    ELSE Int2Rat(Cell(Batch[i], field))])

\* C23: process_bottles puts 0 for a missing value of a numeric field before
\* the scaling over the batch, so the row is scaled as the value 0: the
\* ages [8, missing] come out as [1, 0].
MissingScaledAsZero ==
    (Processed /\ ~result.raised) =>
        \A field \in Range(numerical_features) \cap Range(result.value.columns) :
            \A i \in DOMAIN Batch :
                result.value.rows[i][field] = ZeroFilled(field)[i]

\* The pairs of feature frames _calculate_recommendations may have been
\* called on: the user's bottles and the candidates, each processed on its
\* own, under every order of the flavor columns.
FramePairs ==
    LET user_bar == get_user_bar(call.response)
        user_bottles == user_bar.value.bottles
        candidates == candidate_bottles(bottles_df, user_bottles,
                                        user_bar.value.wishlist)
    IN  {[user |-> Frame(process_bottles(user_bottles, fu), {"flavor_profile"}),
          candidates |-> Frame(ProcessFrame(bottles_df.columns, candidates, fc),
                               {"flavor_profile"})] :
            fu \in FlavorOrders(user_bottles), fc \in FlavorOrders(candidates)}

\* _calculate_recommendations has ended, by return or by exception.
Calculated == pc = "done" /\ call.op = "_calculate_recommendations"

\* _calculate_recommendations has computed the similarities and returned.
Compared == Calculated /\ ~result.raised

\* C24: the user vector and the candidate rows that similarities are
\* computed from are taken over one ordered list of columns: each of them a
\* column of both matrices, none of them twice, never bottle_id, and every row
\* of either matrix has a cell under each.
OneFeatureSpace ==
    Calculated =>
        \A pair \in FramePairs :
            LET columns == feature_columns(pair.user, pair.candidates)
            IN  /\ "bottle_id" \notin Range(columns)
                /\ \A i, j \in DOMAIN columns : columns[i] = columns[j] => i = j
                /\ Range(columns) \subseteq Range(pair.user.columns)
                                            \cap Range(pair.candidates.columns)
                /\ \A i \in DOMAIN pair.user.rows :
                       Range(columns) \subseteq DOMAIN pair.user.rows[i]
                /\ \A i \in DOMAIN pair.candidates.rows :
                       Range(columns) \subseteq DOMAIN pair.candidates.rows[i]

\* Two batches that differ in their columns, both with bottle_id, compared
\* over the columns they share.
OneFeatureSpaceWitness ==
    /\ Compared
    /\ Len(result.value) > 0
    /\ \E pair \in FramePairs :
           /\ "bottle_id" \in Range(pair.user.columns)
           /\ "bottle_id" \in Range(pair.candidates.columns)
           /\ Range(pair.user.columns) # Range(pair.candidates.columns)
           /\ Len(feature_columns(pair.user, pair.candidates)) >= 2

\* The price sentence the ratio rec.price / avg alone decides.
PriceByRatio(rec) ==
    LET avg == profile.price_range.avg
        ratio == RatMul(Int2Rat(rec.price), [n |-> avg.d, d |-> avg.n])
    IN  IF RatLeq(Rat(8, 10), ratio) /\ RatLeq(ratio, Rat(12, 10))
        THEN <<"Similar price point to your collection">>
        ELSE IF RatLess(ratio, Rat(8, 10))
        THEN <<"Great value compared to your collection">>
        ELSE IF RatLeq(ratio, Rat(15, 10))
        THEN <<"Premium option within your price range">>
        ELSE <<>>

\* The reason whose price sentence is the one the ratio decides.
ReasonByRatio(rec) ==
    LET fired == RegionReason(rec, profile) \o StyleReason(rec, profile)
                 \o PriceByRatio(rec) \o AgeReason(rec, profile)
                 \o FlavorReason(rec, profile)
        reasons == IF Len(fired) = 0 THEN GenericReason(rec, profile) ELSE fired
    IN  Join(reasons, ". ", Len(reasons))

\* C25: with reasoning on and an average price above 0 in the profile, the
\* price sentence of a recommendation is decided by the ratio rec.price / avg
\* alone: similar price point in [0.8, 1.2], great value below 0.8, premium
\* option in (1.2, 1.5], none above 1.5, also for a recommendation priced 0.
PriceSentenceByRatio ==
    (Reasoned /\ RatLess(Zero, profile.price_range.avg)) =>
        \A i \in DOMAIN result.value :
            result.value[i].reason = ReasonByRatio(result.value[i])

\* The sentences of the five rules that fired for the recommendation, in the
\* order region, style, price, age, flavor.
FiredSentences(rec) ==
    RegionReason(rec, profile) \o StyleReason(rec, profile)
    \o PriceReason(rec, profile) \o AgeReason(rec, profile)
    \o FlavorReason(rec, profile)

\* C26: with reasoning on, the reason of a personalized recommendation is the
\* sentences of the rules that fired, in the order region, style, price, age,
\* flavor, joined with ". "; the generic complements-your-collection sentence
\* is there exactly when none of the five fired, so no reason is empty.
FiredSentencesJoined ==
    Reasoned =>
        \A i \in DOMAIN result.value :
            LET rec == result.value[i]
                fired == FiredSentences(rec)
                generic == GenericReason(rec, profile)
            IN  /\ rec.reason # ""
                /\ Len(fired) > 0 => rec.reason = Join(fired, ". ", Len(fired))
                /\ Len(fired) = 0 =>
                       /\ generic[1] = "Complements your current collection"
                       /\ rec.reason = Join(generic, ". ", Len(generic))

\* One list with a recommendation that three rules or more fired for, and one
\* that none fired for.
FiredSentencesJoinedWitness ==
    /\ Reasoned
    /\ \E i \in DOMAIN result.value : Len(FiredSentences(result.value[i])) >= 3
    /\ \E i \in DOMAIN result.value : Len(FiredSentences(result.value[i])) = 0

\* C27: after any sequence of get_recommendations calls on an engine, on the
\* personalized or the fallback path, returning or raising, the catalog in
\* memory has the rows, the columns and the values it had right after
\* construction: no step but the construction of an engine changes the
\* catalog in memory, whatever is saved to the catalog file meanwhile.
CatalogAsLoaded ==
    [][pc' = "done" => bottles_df' = bottles_df]_vars

\* The fallback has just run over a catalog that holds a rating other than the
\* default, on an engine whose catalog file was overwritten after the engine
\* had loaded it.
CatalogAsLoadedWitness ==
    /\ pc = "done"
    /\ call.op = "get_recommendations"
    /\ path = "fallback"
    /\ bottles_df # _load_bottle_data(catalog_file)
    /\ \E i \in DOMAIN bottles_df.rows : bottles_df.rows[i].rating # DefaultRating

\* The bottle satisfies every filter supplied: region and style equal, price
\* and age within the bounds.  A bottle without a price (or an age), or with
\* 0 there, satisfies no bound on it.
SatisfiesAll(bottle, criteria) ==
    LET price == Get(bottle, "price", NullNum)
        age == Get(bottle, "age", NullNum)
        priced == price # NullNum /\ price # 0
        aged == age # NullNum /\ age # 0
    IN  /\ criteria.region # NoneStr
               => Get(bottle, "region", NoneStr) = criteria.region
        /\ criteria.style # NoneStr
               => Get(bottle, "style", NoneStr) = criteria.style
        /\ criteria.min_price # NullNum => (priced /\ price >= criteria.min_price)
        /\ criteria.max_price # NullNum => (priced /\ price <= criteria.max_price)
        /\ criteria.min_age # NullNum => (aged /\ age >= criteria.min_age)
        /\ criteria.max_age # NullNum => (aged /\ age <= criteria.max_age)

\* C28: get_bottles_by_criteria returns the bottles of the catalog, in catalog
\* order, that satisfy every supplied filter at once; a bottle that does not
\* satisfy a supplied bound on price or age, one with a missing or zero price
\* or age included, is not returned.
ExactlyTheMatchingBottles ==
    (pc = "filtered" /\ file_state = "ok") =>
        result.value
            = SelectSeq(catalog_file,
                        LAMBDA bottle : SatisfiesAll(bottle, call.criteria))

\* Every bottle of the catalog has a bottle_id, and no two have the same.
UniqueCatalogIds ==
    /\ \A i \in DOMAIN bottles_df.rows : ~isna(bottles_df.rows[i].bottle_id)
    /\ \A i, j \in DOMAIN bottles_df.rows :
           i # j => bottles_df.rows[i].bottle_id # bottles_df.rows[j].bottle_id

\* The record shows the catalog bottle: its id, and its name, brand, region,
\* style and price where the catalog has them.
Shows(rec, bottle) ==
    /\ rec.bottle_id = bottle.bottle_id
    /\ rec.price = bottle.price
    /\ \A c \in {"name", "brand", "region", "style"} :
           ~isna(bottle[c]) => rec[c] = bottle[c]

\* C29: on a catalog with unique bottle ids, every record of a list of
\* recommendations, from the similarity ranking or from the fallback, shows a
\* bottle of the catalog, and no two records of the list have the same
\* bottle_id.
RecordsShowCatalogBottles ==
    (pc = "done" /\ ~result.raised /\ UniqueCatalogIds) =>
        /\ \A i \in DOMAIN result.value :
               \E j \in DOMAIN bottles_df.rows :
                   Shows(result.value[i], bottles_df.rows[j])
        /\ \A i, j \in DOMAIN result.value :
               i # j => result.value[i].bottle_id # result.value[j].bottle_id

\* A similarity ranking of two records or more, taken from a catalog part of
\* which the user owns.
RecordsShowCatalogBottlesWitness ==
    /\ Calculated
    /\ ~result.raised
    /\ UniqueCatalogIds
    /\ Len(result.value) >= 2
    /\ Len(result.value) < Len(bottles_df.rows)
    /\ \E i \in DOMAIN bottles_df.rows : bottles_df.rows[i].bottle_id \in Ids(Owned)

\* get_recommendations has processed the user's bottles and then the
\* candidates, both on the engine's FeatureProcessor.
ProcessedInTurn ==
    pc = "done" /\ call.op = "get_recommendations" /\ path = "personalized"

\* The candidates of the call: the batch processed last.
Candidates == candidate_bottles(bottles_df, Owned, Wishlist)

\* The matrix of the candidates, from the flavor list the processor holds.
CandidateMatrix == ProcessFrame(bottles_df.columns, Candidates, flavor_features)

\* C30: what process_bottles returns for a batch does not depend on the calls
\* made before on the same FeatureProcessor.  The matrix of a batch processed
\* after any earlier calls is a matrix that a processor that has processed
\* nothing before returns for the batch; and after the user's bottles and then
\* the candidates were processed, the processor holds the flavor list of the
\* candidates, the candidates' matrix has a flavor column for each flavor key
\* of the candidates and for no other, and it is a matrix a processor that
\* has processed nothing before returns for them.
MatrixIndependentOfEarlierCalls ==
    /\ Processed =>
           \E listed \in FlavorOrders(Batch) :
               result.value
                   = process_bottles(Batch,
                         FlavorFeaturesAfter(DataFrameColumns(Batch), <<>>, listed))
    /\ ProcessedInTurn =>
        /\ Range(flavor_features) = AllFlavors(Candidates)
        /\ Len(flavor_features) = Cardinality(AllFlavors(Candidates))
        /\ \A f \in AllFlavors(Owned) \cup AllFlavors(Candidates) :
               ("flavor_" \o f) \in Range(CandidateMatrix.columns)
                   <=> f \in AllFlavors(Candidates)
        /\ \E listed \in FlavorOrders(Candidates) :
               CandidateMatrix
                   = ProcessFrame(bottles_df.columns, Candidates,
                                  FlavorFeaturesAfter(bottles_df.columns, <<>>, listed))

\* The user's bottles have a flavor key that no candidate has, and the
\* candidates have flavor keys of their own.
MatrixIndependentOfEarlierCallsWitness ==
    /\ ProcessedInTurn
    /\ AllFlavors(Owned) \ AllFlavors(Candidates) # {}
    /\ AllFlavors(Candidates) # {}
    /\ Range(flavor_features) = AllFlavors(Candidates)

====
